---- MODULE Spec2Model ----
(***************************************************************************)
(* PicoDoc evaluator (src/src/picodoc/eval.py) as a state machine.         *)
(*                                                                         *)
(* The recursive tree walk of evaluate() is modelled by an explicit stack  *)
(* of frames, one per Python activation that is suspended in a loop or in  *)
(* a try block.  Strings are TLA+ strings (Len, \o and SubSeq work on      *)
(* them), AST nodes are records tagged by "kind"; source spans are left    *)
(* out, because no branch of the evaluator reads them.                     *)
(***************************************************************************)
EXTENDS Integers, Sequences, FiniteSets, TLC

VARIABLES
    doc,            \* children of the Document handed to evaluate()
    envIn,          \* the caller-supplied env map
    round,          \* 1: first evaluate(); 2: evaluate() of its own result
    first,          \* the Document returned in round 1 (None before)
    phase,          \* "start" | "expand" | "unwinding" | "done" | "error"
    definitions,    \* ctx.definitions
    env,            \* ctx.env
    include_stack,  \* ctx.include_stack
    call_stack,     \* ctx.call_stack
    stack,          \* suspended activations, innermost last
    result,         \* the Document evaluate() returned (None before)
    err,            \* the exception in flight or raised (None if none)
    source,         \* the text handed to tokenize(), a sequence of characters
    lexer,          \* the fields of the Lexer object
    lexed,          \* what tokenize() did: running, returned or raised
    iterations,     \* iterations of the loop in progress so far
    parser          \* the fields of the Parser object and the locals of parse()

vars == <<doc, envIn, round, first, phase, definitions, env, include_stack,
          call_stack, stack, result, err, source, lexer, lexed, iterations,
          parser>>

\* the state of the front end, which no step of the evaluator touches
front == <<source, lexer, lexed, iterations, parser>>

----------------------------------------------------------------------------
(* Strings *)

StartsWith(s, p) == Len(s) >= Len(p) /\ SubSeq(s, 1, Len(p)) = p

EndsWith(s, p) == Len(s) >= Len(p) /\ SubSeq(s, Len(s) - Len(p) + 1, Len(s)) = p

\* s[n:]
DropFirst(s, n) == SubSeq(s, n + 1, Len(s))

\* s[:-1]
DropLast(s) == SubSeq(s, 1, Len(s) - 1)

CharAt(s, i) == SubSeq(s, i, i)

\* str.find(c): the first index (1-based) of the one-character string c, 0 if none
Find(s, c) ==
    IF \E i \in 1..Len(s) : CharAt(s, i) = c
    THEN CHOOSE i \in 1..Len(s) :
            /\ CharAt(s, i) = c
            /\ \A j \in 1..(i - 1) : CharAt(s, j) # c
    ELSE 0

Contains(s, c) == Find(s, c) # 0

\* the characters str.strip() removes (the ASCII ones)
Whitespace == {" ", "\t", "\n", "\r", "\f"}

RECURSIVE LStrip(_)
LStrip(s) ==
    IF Len(s) > 0 /\ CharAt(s, 1) \in Whitespace THEN LStrip(DropFirst(s, 1)) ELSE s

RECURSIVE RStrip(_)
RStrip(s) ==
    IF Len(s) > 0 /\ CharAt(s, Len(s)) \in Whitespace THEN RStrip(DropLast(s)) ELSE s

----------------------------------------------------------------------------
(* AST nodes (src/src/picodoc/ast.py) *)

None == [kind |-> "None"]

Text(v) == [kind |-> "Text", value |-> v]

Escape(v) == [kind |-> "Escape", value |-> v]

RawString(v) == [kind |-> "RawString", value |-> v]

RequiredMarker == [kind |-> "RequiredMarker"]

CodeSection(b) == [kind |-> "CodeSection", body |-> b]

InterpString(p) == [kind |-> "InterpString", parts |-> p]

NamedArg(n, v) == [name |-> n, value |-> v]

Body(c) == [kind |-> "Body", children |-> c]

MacroCall(n, a, b, br) ==
    [kind |-> "MacroCall", name |-> n, args |-> a, body |-> b, bracketed |-> br]

Paragraph(b) == [kind |-> "Paragraph", body |-> b]

Document(c) == [kind |-> "Document", children |-> c]

----------------------------------------------------------------------------
(* Builtin registry (src/src/picodoc/builtins.py) *)

ALIASES ==
    [n \in {"-", "h1", "--", "---", "**", "__", "li"} |->
        CASE n = "-"   -> "title"
          [] n = "h1"  -> "title"
          [] n = "--"  -> "h2"
          [] n = "---" -> "h3"
          [] n = "**"  -> "b"
          [] n = "__"  -> "i"
          [] n = "li"  -> "*"]

resolve_name(name) == IF name \in DOMAIN ALIASES THEN ALIASES[name] ELSE name

BUILTINS ==
    {"title", "h2", "h3", "h4", "h5", "h6", "p", "hr", "b", "i", "url", "code",
     "literal", "ul", "ol", "*", "table", "tr", "td", "th", "meta", "link",
     "script", "lang", "comment", "set", "ifeq", "ifne", "ifset", "include"}

----------------------------------------------------------------------------
(* Value resolution (eval.py, "Value resolution" section) *)

\* "".join(c.value for c in seq if c is of one of the kinds)
RECURSIVE JoinValues(_, _)
JoinValues(seq, kinds) ==
    IF seq = <<>> THEN ""
    ELSE (IF Head(seq).kind \in kinds THEN Head(seq).value ELSE "")
            \o JoinValues(Tail(seq), kinds)

_extract_def_text(macro) ==
    CASE macro.body.kind = "None"         -> ""
      [] macro.body.kind = "Body"         ->
            JoinValues(macro.body.children, {"Text", "Escape"})
      [] macro.body.kind = "InterpString" -> JoinValues(macro.body.parts, {"Text"})
      [] macro.body.kind = "RawString"    -> macro.body.value
      [] OTHER                            -> ""

\* the text a macro reference stands for: env lookup or definition text
RefText(name, defs, e) ==
    LET ref == resolve_name(name) IN
    IF StartsWith(ref, "env.")
    THEN (IF DropFirst(ref, 4) \in DOMAIN e THEN e[DropFirst(ref, 4)] ELSE "")
    ELSE IF ref \in DOMAIN defs THEN _extract_def_text(defs[ref]) ELSE ""

RECURSIVE CodeSectionText(_, _, _)
CodeSectionText(children, defs, e) ==
    IF children = <<>> THEN ""
    ELSE LET c == Head(children) IN
         (CASE c.kind = "Text"      -> c.value
            [] c.kind = "MacroCall" -> RefText(c.name, defs, e)
            [] OTHER                -> "")
            \o CodeSectionText(Tail(children), defs, e)

RECURSIVE InterpText(_, _, _)
InterpText(parts, defs, e) ==
    IF parts = <<>> THEN ""
    ELSE LET p == Head(parts) IN
         (CASE p.kind = "Text"        -> p.value
            [] p.kind = "CodeSection" -> CodeSectionText(p.body, defs, e)
            [] OTHER                  -> "")
            \o InterpText(Tail(parts), defs, e)

_resolve_value(value, defs, e) ==
    CASE value.kind = "Text"         -> value.value
      [] value.kind = "RawString"    -> value.value
      [] value.kind = "InterpString" -> InterpText(value.parts, defs, e)
      [] value.kind = "MacroCall"    -> RefText(value.name, defs, e)
      [] OTHER                       -> ""

\* the first argument called name, None if there is none
RECURSIVE _get_arg_from(_, _)
_get_arg_from(args, name) ==
    IF args = <<>> THEN None
    ELSE IF Head(args).name = name THEN Head(args).value
    ELSE _get_arg_from(Tail(args), name)

_get_arg(node, name) == _get_arg_from(node.args, name)

\* d[k] = v on a Python dict modelled as a function
Put(d, k, v) == [x \in DOMAIN d \cup {k} |-> IF x = k THEN v ELSE d[x]]

\* del d[k]
Del(d, k) == [x \in DOMAIN d \ {k} |-> d[x]]

EmptyDict == [x \in {} |-> ""]

----------------------------------------------------------------------------
(* Errors (src/src/picodoc/errors.py, EvalError) *)

\* origin is not a field of EvalError: it records which function raised
EvalError(msg, chain, origin) ==
    [kind |-> "EvalError", message |-> msg, call_stack |-> chain, origin |-> origin]

----------------------------------------------------------------------------
(* Pass 1: definition collection *)

\* a pass 1 that records nothing: definitions would be known only once
\* pass 2 reaches their #set
CollectNothing(children, i, c) == c

\* a pass 1 without the duplicate check: a later #set replaces an earlier one
RECURSIVE CollectOverwriting(_, _, _)
CollectOverwriting(children, i, c) ==
    IF i > Len(children) THEN c
    ELSE LET child == children[i] IN
         IF child.kind # "MacroCall" \/ resolve_name(child.name) # "set"
         THEN CollectOverwriting(children, i + 1, c)
         ELSE LET name_val == _get_arg(child, "name") IN
              IF name_val = None THEN CollectOverwriting(children, i + 1, c)
              ELSE LET def_name == _resolve_value(name_val, c.definitions, c.env) IN
                   CollectOverwriting(children, i + 1,
                     [c EXCEPT
                        !.definitions = Put(@, def_name, child),
                        !.env = IF StartsWith(def_name, "env.")
                                THEN Put(@, DropFirst(def_name, 4),
                                         _extract_def_text(child))
                                ELSE @])

\* the loop of _collect_definitions from child i on; c.error is None or the
\* EvalError raised
RECURSIVE CollectFrom(_, _, _)
CollectFrom(children, i, c) ==
    IF i > Len(children) THEN c
    ELSE LET child == children[i] IN
         IF child.kind # "MacroCall" \/ resolve_name(child.name) # "set"
         THEN CollectFrom(children, i + 1, c)
         ELSE LET name_val == _get_arg(child, "name") IN
              IF name_val = None THEN CollectFrom(children, i + 1, c)
              ELSE LET def_name == _resolve_value(name_val, c.definitions, c.env) IN
                   IF def_name \in DOMAIN c.definitions
                   THEN [c EXCEPT !.error =
                            EvalError("duplicate definition: " \o def_name, <<>>,
                                      "_collect_definitions")]
                   ELSE CollectFrom(children, i + 1,
                          [c EXCEPT
                             !.definitions = Put(@, def_name, child),
                             !.env = IF StartsWith(def_name, "env.")
                                     THEN Put(@, DropFirst(def_name, 4),
                                              _extract_def_text(child))
                                     ELSE @])

_collect_definitions(children, defs, e) ==
    CollectFrom(children, 1, [definitions |-> defs, env |-> e, error |-> None])

----------------------------------------------------------------------------
(* Argument and body conversion *)

RECURSIVE _interp_parts_to_children(_)
_interp_parts_to_children(parts) ==
    IF parts = <<>> THEN <<>>
    ELSE LET p == Head(parts) IN
         (CASE p.kind = "Text"        -> <<p>>
            [] p.kind = "CodeSection" -> p.body
            [] OTHER                  -> <<>>)
            \o _interp_parts_to_children(Tail(parts))

_interp_to_children(interp) == _interp_parts_to_children(interp.parts)

_value_to_body_children(value) ==
    CASE value.kind \in {"Text", "Escape"} -> <<value>>
      [] value.kind = "MacroCall"          -> <<value>>
      [] value.kind = "InterpString"       -> _interp_to_children(value)
      [] value.kind = "RawString"          -> <<Text(value.value)>>
      [] OTHER                             -> <<>>

_body_to_children(body) ==
    CASE body.kind = "Body"         -> body.children
      [] body.kind = "InterpString" -> _interp_to_children(body)
      [] body.kind = "RawString"    -> <<Text(body.value)>>
      [] OTHER                      -> <<>>

\* one argument of a render-time builtin: a macro reference becomes plain text
ResolveArg(arg, defs, e) ==
    IF arg.value.kind = "MacroCall"
    THEN LET ref == resolve_name(arg.value.name) IN
         IF StartsWith(ref, "env.")
         THEN NamedArg(arg.name,
                Text(IF DropFirst(ref, 4) \in DOMAIN e THEN e[DropFirst(ref, 4)] ELSE ""))
         ELSE IF ref \in DOMAIN defs
         THEN NamedArg(arg.name, Text(_extract_def_text(defs[ref])))
         ELSE arg
    ELSE arg

_resolve_macro_args(args, defs, e) ==
    [i \in 1..Len(args) |-> ResolveArg(args[i], defs, e)]

----------------------------------------------------------------------------
(* Insertion-ordered dicts of _expand_user_macro: sequences of [name, value] *)

Names(d) == {d[i].name : i \in 1..Len(d)}

\* d[name] = v: an existing key keeps its place
SPut(d, name, v) ==
    IF name \in Names(d)
    THEN [i \in 1..Len(d) |-> IF d[i].name = name THEN [d[i] EXCEPT !.value = v] ELSE d[i]]
    ELSE Append(d, [name |-> name, value |-> v])

\* params: every argument of the definition but name=
RECURSIVE ParamsFrom(_, _)
ParamsFrom(args, acc) ==
    IF args = <<>> THEN acc
    ELSE LET a == Head(args) IN
         ParamsFrom(Tail(args),
            IF a.name = "name" THEN acc
            ELSE IF a.value.kind = "RequiredMarker"
            THEN SPut(acc, a.name, [required |-> TRUE, default |-> None])
            ELSE SPut(acc, a.name, [required |-> FALSE, default |-> a.value]))

\* call-site arguments that name a parameter
RECURSIVE BindArgs(_, _, _)
BindArgs(args, params, acc) ==
    IF args = <<>> THEN acc
    ELSE LET a == Head(args) IN
         BindArgs(Tail(args), params,
            IF a.name \in Names(params)
            THEN SPut(acc, a.name, _value_to_body_children(a.value))
            ELSE acc)

BindBody(node, params, b) ==
    IF "body" \in Names(params) /\ "body" \notin Names(b) /\ node.body # None
    THEN SPut(b, "body", _body_to_children(node.body))
    ELSE b

\* defaults for unbound parameters; missing is <<>> or <<P>> for the first
\* required parameter P left unbound
RECURSIVE BindDefaults(_, _, _)
BindDefaults(params, i, b) ==
    IF i > Len(params) THEN [bindings |-> b, missing |-> <<>>]
    ELSE LET p == params[i] IN
         IF p.name \in Names(b) THEN BindDefaults(params, i + 1, b)
         ELSE IF p.value.required THEN [bindings |-> b, missing |-> <<p.name>>]
         ELSE BindDefaults(params, i + 1,
                SPut(b, p.name,
                     IF p.value.default # None
                     THEN _value_to_body_children(p.value.default)
                     ELSE <<>>))

Bind(node, defn) ==
    LET params == ParamsFrom(defn.args, <<>>) IN
    BindDefaults(params, 1, BindBody(node, params, BindArgs(node.args, params, <<>>)))

Synthetic(param_name, value) ==
    MacroCall("set", <<NamedArg("name", Text(param_name))>>, Body(value), TRUE)

\* the shadowing loop from binding i on; st.raised tells that an env.* name
\* stopped it
RECURSIVE InstallFrom(_, _, _)
InstallFrom(resolved, i, st) ==
    IF i > Len(resolved) THEN st
    ELSE LET p == resolved[i] IN
         IF StartsWith(p.name, "env.") THEN [st EXCEPT !.raised = <<p.name>>]
         ELSE InstallFrom(resolved, i + 1,
                [st EXCEPT
                   !.saved = IF p.name \in DOMAIN st.definitions
                             THEN Put(@, p.name, st.definitions[p.name]) ELSE @,
                   !.definitions = Put(@, p.name, Synthetic(p.name, p.value)),
                   !.shadowed = Append(@, p.name)])

Install(resolved, defs) ==
    InstallFrom(resolved, 1,
        [definitions |-> defs, saved |-> EmptyDict, shadowed |-> <<>>, raised |-> <<>>])

\* a restore that forgets the saved definitions: every shadowed name is
\* deleted
RestoreDeleting(defs, shadowed, saved) ==
    [x \in DOMAIN defs \ {shadowed[i] : i \in 1..Len(shadowed)} |-> defs[x]]

\* the innermost finally of _expand_user_macro
RECURSIVE Restore(_, _, _)
Restore(defs, shadowed, saved) ==
    IF shadowed = <<>> THEN defs
    ELSE LET p == Head(shadowed) IN
         Restore(IF p \in DOMAIN saved THEN Put(defs, p, saved[p]) ELSE Del(defs, p),
                 Tail(shadowed), saved)

----------------------------------------------------------------------------
(* Pipe tables (eval.py, "Table pipe-delimited expansion") *)

\* rows[-1][-1].extend(nodes)
AppendToCell(rows, nodes) ==
    LET r == Len(rows) IN
    LET c == Len(rows[r]) IN
    [rows EXCEPT ![r] = [@ EXCEPT ![c] = @ \o nodes]]

RECURSIVE SplitRemaining(_, _)
SplitRemaining(remaining, rows) ==
    IF remaining = "" THEN rows
    ELSE LET nl == Find(remaining, "\n")
             pipe == Find(remaining, "|") IN
         IF nl = 0 /\ pipe = 0 THEN AppendToCell(rows, <<Text(remaining)>>)
         ELSE IF nl > 0 /\ (pipe = 0 \/ nl < pipe)
         THEN LET before == SubSeq(remaining, 1, nl - 1) IN
              LET r1 == IF before # "" THEN AppendToCell(rows, <<Text(before)>>)
                        ELSE rows IN
              SplitRemaining(DropFirst(remaining, nl), Append(r1, << <<>> >>))
         ELSE LET before == SubSeq(remaining, 1, pipe - 1) IN
              LET r1 == IF before # "" THEN AppendToCell(rows, <<Text(before)>>)
                        ELSE rows IN
              SplitRemaining(DropFirst(remaining, pipe),
                             [r1 EXCEPT ![Len(r1)] = Append(@, <<>>)])

_split_text_into_rows(text_node, rows) == SplitRemaining(text_node.value, rows)

RECURSIVE TrimLeading(_)
TrimLeading(cell) ==
    IF cell # <<>> /\ Head(cell).kind = "Text"
    THEN LET stripped == LStrip(Head(cell).value) IN
         IF stripped # "" THEN <<Text(stripped)>> \o Tail(cell)
         ELSE TrimLeading(Tail(cell))
    ELSE cell

RECURSIVE TrimTrailing(_)
TrimTrailing(cell) ==
    IF cell # <<>> /\ cell[Len(cell)].kind = "Text"
    THEN LET stripped == RStrip(cell[Len(cell)].value) IN
         IF stripped # "" THEN SubSeq(cell, 1, Len(cell) - 1) \o <<Text(stripped)>>
         ELSE TrimTrailing(SubSeq(cell, 1, Len(cell) - 1))
    ELSE cell

\* _trim_cell without its second loop
TrimCellLeadingOnly(cell) == TrimLeading(cell)

_trim_cell(cell) == TrimTrailing(TrimLeading(cell))

RowNotEmpty(r) == \E j \in 1..Len(r) : r[j] # <<>>

\* what _parse_pipe_rows does once every child has been distributed
FinishRows(rows) ==
    LET kept == SelectSeq(rows, RowNotEmpty) IN
    LET trimmed == [i \in 1..Len(kept) |->
                        [j \in 1..Len(kept[i]) |-> _trim_cell(kept[i][j])]] IN
    SelectSeq(trimmed, RowNotEmpty)

\* the #tr / #th / #td tree _expand_table builds from the rows
BuildTable(rows, bracketed) ==
    LET tr_nodes ==
            [i \in 1..Len(rows) |->
                MacroCall("tr", <<>>,
                    Body([j \in 1..Len(rows[i]) |->
                            MacroCall(IF i = 1 THEN "th" ELSE "td", <<>>,
                                      Body(rows[i][j]), TRUE)]),
                    TRUE)] IN
    MacroCall("table", <<>>, Body(tr_nodes), bracketed)

has_pipe(children) ==
    \E i \in 1..Len(children) :
        children[i].kind = "Text" /\ Contains(children[i].value, "|")

----------------------------------------------------------------------------
(* Post-expansion nesting validation *)

_NESTING_RULES ==
    [n \in {"tr", "td", "th", "*"} |->
        CASE n = "tr" -> {"table"}
          [] n = "td" -> {"tr"}
          [] n = "th" -> {"tr"}
          [] n = "*"  -> {"ul", "ol"}]

\* " or ".join(f"#{p}" for p in sorted(allowed))
allowed_str(name) ==
    CASE name = "tr" -> "#table"
      [] name = "*"  -> "#ol or #ul"
      [] OTHER       -> "#tr"

\* None, or the EvalError of the first violation in document order; the
\* parent_name None of the top level is "", which no rule allows either
RECURSIVE _validate_node(_, _)
RECURSIVE ValidateChildren(_, _, _)
_validate_node(node, parent_name) ==
    LET name == resolve_name(node.name) IN
    IF name \in DOMAIN _NESTING_RULES /\ parent_name \notin _NESTING_RULES[name]
    THEN EvalError("#" \o node.name \o " must appear inside " \o allowed_str(name),
                   <<>>, "_validate_node")
    ELSE IF node.body.kind = "Body"
    THEN ValidateChildren(node.body.children, 1, name)
    ELSE None

ValidateChildren(children, i, parent_name) ==
    IF i > Len(children) THEN None
    ELSE IF children[i].kind # "MacroCall"
    THEN ValidateChildren(children, i + 1, parent_name)
    ELSE LET e == _validate_node(children[i], parent_name) IN
         IF e # None THEN e ELSE ValidateChildren(children, i + 1, parent_name)

_validate_nesting(document) == ValidateChildren(document.children, 1, "")

IsMacroCall(n) == n.kind = "MacroCall"

----------------------------------------------------------------------------
(* The file system #include reads, and path resolution *)

max_include_depth == 16

max_call_depth == 64

\* str(n) for 0 <= n < 100
Digit(n) == SubSeq("0123456789", n + 1, n + 1)

NumStr(n) == IF n < 10 THEN Digit(n) ELSE Digit(n \div 10) \o Digit(n % 10)

\* evaluate(doc, "main.pdoc") run in the directory /doc
RootFile == "main.pdoc"

source_dir == "/doc"

\* str((ctx.source_dir / filename).resolve()) for a relative name without
\* "." or ".." segments and without symbolic links
ResolvePath(dir, filename) == dir \o "/" \o filename

----------------------------------------------------------------------------
(* The documents and files the model evaluates *)

\* #n
Ref(n) == MacroCall(n, <<>>, None, FALSE)

\* [#n args]
Call(n, args) == MacroCall(n, args, None, TRUE)

\* [#n args : children]
Block(n, args, children) == MacroCall(n, args, Body(children), TRUE)

\* [#set name=n params : children]
Set(n, params, children) ==
    Block("set", <<NamedArg("name", Text(n))>> \o params, children)

\* #p: children
P(children) == MacroCall("p", <<>>, Body(children), FALSE)

\* [#include file="f"]
Include(f) ==
    MacroCall("include", <<NamedArg("file", InterpString(<<Text(f)>>))>>, None, TRUE)

\* [#ifeq lhs=a rhs=a : children], a conditional that is always taken
Always(children) ==
    Block("ifeq", <<NamedArg("lhs", Text("a")), NamedArg("rhs", Text("a"))>>, children)

\* scoping: a global x, macros that shadow it, a nested #set of it
GlobalX == Set("x", <<>>, <<Text("global")>>)

ShowDef == Set("show", <<NamedArg("x", RequiredMarker)>>, <<Ref("x")>>)

ResetDef ==
    Set("reset", <<NamedArg("x", Text("dflt"))>>,
        <<Set("x", <<>>, <<Text("inner")>>), Ref("x")>>)

UseShow ==
    P(<<Call("show", <<NamedArg("x", Text("local"))>>), Text(" "), Ref("x")>>)

UseShowSet ==
    P(<<Call("show", <<NamedArg("x", Set("x", <<>>, <<Text("other")>>))>>),
        Text(" "), Ref("x")>>)

UseReset == P(<<Call("reset", <<>>), Text(" "), Ref("x")>>)

NestedX == Always(<<Set("x", <<>>, <<Text("nested")>>)>>)

UseX == Paragraph(<<Text("see "), Ref("x"), Text(" "), Ref("x.")>>)

KitScope ==
    {GlobalX, ShowDef, ResetDef, UseShow, UseShowSet, UseReset, NestedX, UseX}

\* recursion: a self-referential macro and a pair of mutually recursive ones
LoopDef == Set("loop", <<>>, <<Ref("loop")>>)

PingDef == Set("ping", <<>>, <<Ref("pong")>>)

PongDef == Set("pong", <<>>, <<Ref("ping")>>)

UseLoop == P(<<Ref("loop")>>)

UsePing == Ref("ping")

KitRec == {LoopDef, PingDef, PongDef, UseLoop, UsePing}

\* environment: macros that declare an env.* parameter, #set of an env name
BadReq == Set("bad", <<NamedArg("env.mode", RequiredMarker)>>, <<Ref("env.mode")>>)

BadDflt ==
    Set("bad", <<NamedArg("y", Text("why")), NamedArg("env.mode", Text("dflt"))>>,
        <<Ref("env.mode")>>)

UseBad == P(<<Call("bad", <<>>)>>)

UseBadArg == P(<<Call("bad", <<NamedArg("env.mode", Text("hacked"))>>)>>)

EnvSet == Set("env.mode", <<>>, <<Text("final")>>)

UseEnv ==
    Block("ifset", <<NamedArg("name", Text("env.mode"))>>,
          <<P(<<Text("mode="), Ref("env.mode")>>)>>)

KitEnv == {BadReq, BadDflt, UseBad, UseBadArg, EnvSet, UseEnv}

\* inclusion: a good file, a cycle through the root, two chains, a file in
\* a subdirectory
UseInc == P(<<Ref("inc")>>)

KitInc ==
    {Include("part.pdoc"), Include("b.pdoc"), Include("f1.pdoc"),
     Include("c1.pdoc"), Include("missing.pdoc"), Include("sub/a.pdoc"), UseInc}

\* tables, lists and the nesting rules
PipeTable ==
    MacroCall("table", <<>>, Body(<<Text("  Name | Age\n  Alice | 30")>>), FALSE)

\* a pipe table with a blank line, a line of empty cells, a render-time
\* macro and a user macro in its last cell
PipeMacroTable ==
    Block("table", <<>>,
        <<Text("  Col | Val\n\n | \n  Bold | "),
          MacroCall("**", <<>>, InterpString(<<Text("Yes")>>), TRUE),
          Ref("bar"), Text(" ")>>)

BarDef == Set("bar", <<>>, <<Text("a|b")>>)

TableRef == Block("table", <<>>, <<Ref("bar")>>)

GoodTable ==
    Block("table", <<>>,
        <<Block("tr", <<>>,
            <<Block("td", <<>>,
                <<Text("Cell"), Block("comment", <<>>, <<Text("note")>>),
                  MacroCall("url", <<NamedArg("link", Ref("bar"))>>,
                            InterpString(<<Text("see "), CodeSection(<<Ref("bar")>>)>>),
                            TRUE)>>)>>)>>)

GoodList ==
    Block("ul", <<>>, <<Block("li", <<>>, <<Text("item"), Escape("#")>>)>>)

BadTd == MacroCall("td", <<>>, Body(<<Text("x")>>), FALSE)

StringTd ==
    MacroCall("p", <<>>,
        InterpString(<<Text("a "),
                       CodeSection(<<MacroCall("td", <<>>, Body(<<Text("x")>>), FALSE)>>)>>),
        TRUE)

KitTable ==
    {PipeTable, PipeMacroTable, BarDef, TableRef, GoodTable, GoodList, BadTd, StringTd}

\* parameters and the macros called from a body: inner refers to x, which
\* only outer binds; the default of v refers to its sibling parameter u
InnerDef == Set("inner", <<>>, <<Ref("x")>>)

OuterDef == Set("outer", <<NamedArg("x", RequiredMarker)>>, <<Ref("inner")>>)

UseOuter == P(<<Call("outer", <<NamedArg("x", Text("local"))>>)>>)

PairDef ==
    Set("pair", <<NamedArg("u", RequiredMarker), NamedArg("v", Ref("u"))>>, <<Ref("v")>>)

UsePair == P(<<Call("pair", <<NamedArg("u", Text("1"))>>)>>)

GlobalU == Set("u", <<>>, <<Text("gu")>>)

UseOuterX == P(<<Call("outer", <<NamedArg("x", Ref("x"))>>)>>)

KitParam ==
    {GlobalX, InnerDef, OuterDef, UseOuter, UseOuterX, PairDef, UsePair, GlobalU}

\* names of the builtin registry: a #set of b, a macro with a parameter i,
\* calls of both, the alias ** of b, b with the trailing dot
BoldDef == Set("b", <<>>, <<Text("user")>>)

StyleDef == Set("style", <<NamedArg("i", RequiredMarker)>>, <<Ref("i")>>)

UseStyle ==
    P(<<Call("style", <<NamedArg("i", Text("it"))>>), Block("**", <<>>, <<Text("t")>>)>>)

UseBoldDot == P(<<Ref("b."), Ref("b")>>)

KitBuiltin == {BoldDef, StyleDef, UseStyle, UseBoldDot}

Kits == {KitScope, KitRec, KitEnv, KitInc, KitTable, KitParam, KitBuiltin}

\* the most top-level children a document has
MaxTop == 3

Seqs(S, n) == UNION {[1..k -> S] : k \in 1..n}

Docs == UNION {Seqs(K, MaxTop) : K \in Kits}

EnvPool == {EmptyDict, [k \in {"mode"} |-> "safe"]}

\* f1.pdoc includes f2.pdoc ... includes f<ChainLen>.pdoc, which is plain
\* text: one file more than the include stack can hold
ChainLen == max_include_depth + 1

\* c1.pdoc includes c2.pdoc ... includes c<CycleLen>.pdoc, which includes
\* the root document: with the root, a cycle that fills the include stack
CycleLen == max_include_depth - 1

ChainFile(prefix, i) == prefix \o NumStr(i) \o ".pdoc"

File(children) == [found |-> TRUE, children |-> children]

NoFile == [found |-> FALSE, children |-> <<>>]

\* filepath.read_text() and parse() of it: the children of the parsed
\* document, or NoFile for FileNotFoundError
ReadFile(path) ==
    IF path = ResolvePath(source_dir, "part.pdoc")
    THEN File(<<Set("inc", <<>>, <<Text("from part")>>), Paragraph(<<Text("part")>>)>>)
    ELSE IF path = ResolvePath(source_dir, "b.pdoc")
    THEN File(<<Include(RootFile)>>)
    ELSE IF path = ResolvePath(source_dir, "sub/a.pdoc")
    THEN File(<<Include("n.pdoc")>>)
    ELSE IF path = ResolvePath(source_dir, "sub/n.pdoc")
    THEN File(<<P(<<Text("near")>>)>>)
    ELSE IF path = ResolvePath(source_dir, "n.pdoc")
    THEN File(<<P(<<Text("far")>>)>>)
    ELSE IF \E i \in 1..(ChainLen - 1) :
                path = ResolvePath(source_dir, ChainFile("f", i))
    THEN LET i == CHOOSE i \in 1..(ChainLen - 1) :
                    path = ResolvePath(source_dir, ChainFile("f", i)) IN
         File(<<Include(ChainFile("f", i + 1))>>)
    ELSE IF path = ResolvePath(source_dir, ChainFile("f", ChainLen))
    THEN File(<<P(<<Text("end")>>)>>)
    ELSE IF \E i \in 1..(CycleLen - 1) :
                path = ResolvePath(source_dir, ChainFile("c", i))
    THEN LET i == CHOOSE i \in 1..(CycleLen - 1) :
                    path = ResolvePath(source_dir, ChainFile("c", i)) IN
         File(<<Include(ChainFile("c", i + 1))>>)
    ELSE IF path = ResolvePath(source_dir, ChainFile("c", CycleLen))
    THEN File(<<Include(RootFile)>>)
    ELSE NoFile

----------------------------------------------------------------------------
(* Lexer (src/src/picodoc/lexer.py, tokens.py, strings.py) *)

\* A character is a one-character string and NUL stands for "\0"; a source,
\* a token's value and its raw text are sequences of characters.  A Position
\* is kept as its offset: no branch of the lexer reads the line or column.

NUL == "NUL"

Token(tt, value, raw, start, end) ==
    [type |-> tt, value |-> value, raw |-> raw, start |-> start, end |-> end]

_IDENT_SPECIAL == {"!", "$", "%", "&", "*", "+", "-", "/", "@", "^", "_", "~"}

\* the ASCII characters for which ch.isalpha() or ch.isdigit() holds
Alphanumeric ==
    {"a", "b", "c", "d", "e", "f", "g", "h", "i", "j", "k", "l", "m",
     "n", "o", "p", "q", "r", "s", "t", "u", "v", "w", "x", "y", "z",
     "A", "B", "C", "D", "E", "F", "G", "H", "I", "J", "K", "L", "M",
     "N", "O", "P", "Q", "R", "S", "T", "U", "V", "W", "X", "Y", "Z",
     "0", "1", "2", "3", "4", "5", "6", "7", "8", "9"}

is_ident_char(ch) == ch \in Alphanumeric \cup {"."} \cup _IDENT_SPECIAL

HexDigits ==
    <<"0", "1", "2", "3", "4", "5", "6", "7", "8", "9",
      "a", "b", "c", "d", "e", "f", "A", "B", "C", "D", "E", "F">>

is_hex_digit(ch) == \E i \in 1..Len(HexDigits) : HexDigits[i] = ch

\* int(hex_str, 16)
RECURSIVE HexValue(_)
HexValue(hex_str) ==
    IF hex_str = <<>> THEN 0
    ELSE LET i == CHOOSE i \in 1..Len(HexDigits) : HexDigits[i] = hex_str[Len(hex_str)] IN
         16 * HexValue(SubSeq(hex_str, 1, Len(hex_str) - 1))
           + (IF i <= 16 THEN i - 1 ELSE i - 7)

RECURSIVE Decimal(_)
Decimal(n) == IF n < 10 THEN Digit(n) ELSE Decimal(n \div 10) \o Digit(n % 10)

\* chr(codepoint), named by its code point
Chr(codepoint) == "chr(" \o Decimal(codepoint) \o ")"

\* how many characters from offset from on satisfy In, up to the first that
\* does not: the extent of a `while pos < len and In(peek)` loop
Run(src, from, In(_)) ==
    CHOOSE n \in 0..(Len(src) - from) :
        /\ \A i \in 1..n : In(src[from + i])
        /\ from + n = Len(src) \/ ~In(src[from + n + 1])

\* content.split("\n")
SplitLines(content) ==
    LET at == {i \in 1..Len(content) : content[i] = "\n"} IN
    LET n == Cardinality(at) IN
    LET cut == [k \in 0..(n + 1) |->
                  IF k = 0 THEN 0
                  ELSE IF k = n + 1 THEN Len(content) + 1
                  ELSE CHOOSE i \in at : Cardinality({j \in at : j < i}) = k - 1] IN
    [k \in 1..(n + 1) |-> SubSeq(content, cut[k - 1] + 1, cut[k] - 1)]

_is_blank(line) == \A i \in 1..Len(line) : line[i] \in {" ", "\t"}

\* "\n".join(lines)
RECURSIVE JoinLines(_)
JoinLines(lines) ==
    IF lines = <<>> THEN <<>>
    ELSE IF Len(lines) = 1 THEN lines[1]
    ELSE lines[1] \o <<"\n">> \o JoinLines(Tail(lines))

strip_string_whitespace(content) ==
    IF content = <<>> THEN content
    ELSE LET all == SplitLines(content) IN
         LET l1 == IF _is_blank(all[1]) THEN Tail(all) ELSE all IN
         IF l1 = <<>> THEN <<>>
         ELSE LET last_blank == _is_blank(l1[Len(l1)]) IN
              LET common_prefix == IF last_blank THEN l1[Len(l1)] ELSE <<>> IN
              LET l2 == IF last_blank THEN SubSeq(l1, 1, Len(l1) - 1) ELSE l1 IN
              IF l2 = <<>> THEN <<>>
              ELSE LET n == Len(common_prefix) IN
                   LET can_strip ==
                         \A i \in 1..Len(l2) :
                            \/ Len(l2[i]) >= n /\ SubSeq(l2[i], 1, n) = common_prefix
                            \/ _is_blank(l2[i]) IN
                   IF n > 0 /\ can_strip
                   THEN JoinLines([i \in 1..Len(l2) |->
                            IF _is_blank(l2[i]) THEN l2[i]
                            ELSE SubSeq(l2[i], n + 1, Len(l2[i]))])
                   ELSE JoinLines(l2)

\* Lexer.__init__
NewLexer ==
    [pos |-> 0, tokens |-> <<>>, state_stack |-> <<>>, state |-> "NORMAL",
     bracket_depth |-> 0]

_peek(src, lx, offset) ==
    IF lx.pos + offset < Len(src) THEN src[lx.pos + offset + 1] ELSE ""

\* n calls of _advance
Advanced(lx, n) == [lx EXCEPT !.pos = @ + n]

\* _emit that records the resolved value as the raw text
EmitValueAsRaw(lx, tt, value, raw, start) ==
    [lx EXCEPT !.tokens = Append(@, Token(tt, value, value, start, lx.pos))]

_emit(lx, tt, value, raw, start) ==
    [lx EXCEPT !.tokens = Append(@, Token(tt, value, raw, start, lx.pos))]

\* a push that leaves the bracket depth as it is
PushKeepingDepth(lx, state, bracket_depth) ==
    [lx EXCEPT !.state_stack = Append(@, <<lx.state, lx.bracket_depth>>),
               !.state = state]

_push_state(lx, state, bracket_depth) ==
    [lx EXCEPT !.state_stack = Append(@, <<lx.state, lx.bracket_depth>>),
               !.state = state,
               !.bracket_depth = bracket_depth]

_pop_state(lx) ==
    LET top == lx.state_stack[Len(lx.state_stack)] IN
    [lx EXCEPT !.state_stack = SubSeq(@, 1, Len(@) - 1),
               !.state = top[1],
               !.bracket_depth = top[2]]

\* what a handler leaves: the lexer, and the message of the LexError it
\* raised ("" if it returned)
Returns(lx) == [lx |-> lx, error |-> ""]

Raises(lx, message) == [lx |-> lx, error |-> message]

\* the single-character structural tokens of _lex_normal
Structural ==
    [ch \in {"#", "[", "]", ":", "=", "?"} |->
        CASE ch = "#" -> "HASH" [] ch = "[" -> "LBRACKET" [] ch = "]" -> "RBRACKET"
          [] ch = ":" -> "COLON" [] ch = "=" -> "EQUALS" [] ch = "?" -> "QUESTION"]

OneChar(lx, tt, ch) == _emit(Advanced(lx, 1), tt, <<ch>>, <<ch>>, lx.pos)

_lex_ws(src, lx) ==
    LET n == Run(src, lx.pos, LAMBDA c : c \in {" ", "\t"}) IN
    LET text == SubSeq(src, lx.pos + 1, lx.pos + n) IN
    Returns(_emit(Advanced(lx, n), "WS", text, text, lx.pos))

_lex_identifier(src, lx) ==
    LET n == Run(src, lx.pos, is_ident_char) IN
    LET text == SubSeq(src, lx.pos + 1, lx.pos + n) IN
    Returns(_emit(Advanced(lx, n), "IDENTIFIER", text, text, lx.pos))

\* the characters at which _lex_text stops
EndsText(ch) ==
    \/ ch \in {"#", "[", "]", "\\", ":", "=", "?", "\""}
    \/ ch \in {" ", "\t", "\n", "\r"}
    \/ ch = NUL
    \/ is_ident_char(ch)

_lex_text(src, lx) ==
    LET n == Run(src, lx.pos, LAMBDA c : ~EndsText(c)) IN
    LET text == SubSeq(src, lx.pos + 1, lx.pos + n) IN
    IF n > 0 THEN Returns(_emit(Advanced(lx, n), "TEXT", text, text, lx.pos))
    ELSE Returns(lx)

\* _lex_hex_escape and the _emit that follows it in the caller; lx is past
\* the x or U, start the offset of the backslash
HexEscape(src, lx, count, start, tt) ==
    LET prefix == SubSeq(src, start + 1, lx.pos) IN
    LET run == Run(src, lx.pos, is_hex_digit) IN
    LET n == IF run < count THEN run ELSE count IN
    LET hex_str == SubSeq(src, lx.pos + 1, lx.pos + n) IN
    IF n < count
    THEN IF lx.pos + n >= Len(src)
         THEN Raises(Advanced(lx, n), "incomplete escape: expected hex digits")
         ELSE Raises(Advanced(lx, n), "invalid hex digit in escape sequence")
    ELSE IF HexValue(hex_str) > 1114111
    THEN Raises(Advanced(lx, n), "Unicode codepoint is out of range")
    ELSE Returns(_emit(Advanced(lx, n), tt, <<Chr(HexValue(hex_str))>>,
                       prefix \o hex_str, start))

_lex_prose_escape(src, lx) ==
    LET start == lx.pos IN
    LET l1 == Advanced(lx, 1) IN
    LET ch == _peek(src, l1, 0) IN
    IF l1.pos >= Len(src) THEN Raises(l1, "unexpected end of input after '\\'")
    ELSE IF ch \in {"\\", "#", "[", "]", ":", "="}
    THEN Returns(_emit(Advanced(l1, 1), "ESCAPE", <<ch>>, <<"\\", ch>>, start))
    ELSE IF ch = "x" THEN HexEscape(src, Advanced(l1, 1), 2, start, "ESCAPE")
    ELSE IF ch = "U" THEN HexEscape(src, Advanced(l1, 1), 8, start, "ESCAPE")
    ELSE Raises(l1, "invalid escape sequence")

\* the scan of _lex_raw_string from offset pos: where the closing run of
\* delimiter_count quotes starts and ends, or that there is none
RECURSIVE ScanRaw(_, _, _)
ScanRaw(src, pos, delimiter_count) ==
    IF pos >= Len(src) THEN [closed |-> FALSE, run_start |-> pos, pos |-> pos]
    ELSE IF src[pos + 1] = "\""
    THEN LET run_count == Run(src, pos, LAMBDA c : c = "\"") IN
         IF run_count = delimiter_count
         THEN [closed |-> TRUE, run_start |-> pos, pos |-> pos + run_count]
         ELSE ScanRaw(src, pos + run_count, delimiter_count)
    ELSE ScanRaw(src, pos + 1, delimiter_count)

_lex_raw_string(src, lx, delimiter_count, start) ==
    LET content_start == lx.pos IN
    LET scan == ScanRaw(src, lx.pos, delimiter_count) IN
    LET l1 == [lx EXCEPT !.pos = scan.pos] IN
    IF scan.closed
    THEN LET raw_content == SubSeq(src, content_start + 1, scan.run_start) IN
         LET raw_text == SubSeq(src, start + 1, scan.pos) IN
         Returns(_emit(l1, "RAW_STRING", strip_string_whitespace(raw_content),
                       raw_text, start))
    ELSE Raises(l1, "unterminated raw string")

_lex_string_open(src, lx) ==
    LET start == lx.pos IN
    LET quote_count == Run(src, lx.pos, LAMBDA c : c = "\"") IN
    LET l1 == Advanced(lx, quote_count) IN
    IF quote_count = 1
    THEN Returns(_push_state(_emit(l1, "STRING_START", <<"\"">>, <<"\"">>, start),
                             "INTERP_STRING", 0))
    ELSE IF quote_count = 2
    THEN Returns(_emit(_emit(l1, "STRING_START", <<"\"">>, <<"\"">>, start),
                       "STRING_END", <<"\"">>, <<"\"">>, start))
    ELSE _lex_raw_string(src, l1, quote_count, start)

_lex_normal(src, lx) ==
    LET ch == _peek(src, lx, 0) IN
    IF ch = NUL THEN Raises(lx, "NUL character in source")
    ELSE IF ch \in DOMAIN Structural THEN Returns(OneChar(lx, Structural[ch], ch))
    ELSE IF ch = "\\" THEN _lex_prose_escape(src, lx)
    ELSE IF ch = "\"" THEN _lex_string_open(src, lx)
    ELSE IF ch = "\n" THEN Returns(OneChar(lx, "NEWLINE", ch))
    ELSE IF ch = "\r" /\ _peek(src, lx, 1) = "\n"
    THEN Returns(_emit(Advanced(lx, 2), "NEWLINE", <<"\n">>, <<"\r", "\n">>, lx.pos))
    ELSE IF ch \in {" ", "\t"} THEN _lex_ws(src, lx)
    ELSE IF is_ident_char(ch) THEN _lex_identifier(src, lx)
    ELSE _lex_text(src, lx)

\* the values of `simple` in _lex_string_escape
Simple ==
    [ch \in {"\\", "\"", "n", "t"} |->
        CASE ch = "\\" -> "\\" [] ch = "\"" -> "\"" [] ch = "n" -> "\n" [] ch = "t" -> "\t"]

_lex_string_escape(src, lx) ==
    LET start == lx.pos IN
    LET l1 == Advanced(lx, 1) IN
    LET ch == _peek(src, l1, 0) IN
    IF l1.pos >= Len(src) THEN Raises(l1, "unexpected end of input in string escape")
    ELSE IF ch = "["
    THEN Returns(_push_state(_emit(Advanced(l1, 1), "CODE_OPEN", <<"\\", "[">>,
                                   <<"\\", "[">>, start),
                             "CODE_MODE", 1))
    ELSE IF ch \in DOMAIN Simple
    THEN Returns(_emit(Advanced(l1, 1), "STRING_ESCAPE", <<Simple[ch]>>, <<"\\", ch>>,
                       start))
    ELSE IF ch = "x" THEN HexEscape(src, Advanced(l1, 1), 2, start, "STRING_ESCAPE")
    ELSE IF ch = "U" THEN HexEscape(src, Advanced(l1, 1), 8, start, "STRING_ESCAPE")
    ELSE Raises(l1, "invalid string escape sequence")

_lex_interp_string(src, lx) ==
    LET ch == _peek(src, lx, 0) IN
    IF ch = "\"" THEN Returns(_pop_state(OneChar(lx, "STRING_END", ch)))
    ELSE IF ch = "\\" THEN _lex_string_escape(src, lx)
    ELSE LET n == Run(src, lx.pos, LAMBDA c : c \notin {"\"", "\\"}) IN
         LET text == SubSeq(src, lx.pos + 1, lx.pos + n) IN
         IF n > 0 THEN Returns(_emit(Advanced(lx, n), "STRING_TEXT", text, text, lx.pos))
         ELSE IF lx.pos >= Len(src) THEN Raises(lx, "unterminated interpreted string")
         ELSE Returns(lx)

\* a code mode that does not count the opening brackets
CodeModeNotCountingOpen(src, lx) ==
    LET ch == _peek(src, lx, 0) IN
    IF ch = "["
    THEN Returns(OneChar(lx, "LBRACKET", ch))
    ELSE IF ch = "]"
    THEN LET l1 == [lx EXCEPT !.bracket_depth = @ - 1] IN
         IF l1.bracket_depth = 0
         THEN Returns(_pop_state(OneChar(l1, "CODE_CLOSE", ch)))
         ELSE Returns(OneChar(l1, "RBRACKET", ch))
    ELSE _lex_normal(src, lx)

_lex_code_mode(src, lx) ==
    LET ch == _peek(src, lx, 0) IN
    IF ch = "["
    THEN Returns(OneChar([lx EXCEPT !.bracket_depth = @ + 1], "LBRACKET", ch))
    ELSE IF ch = "]"
    THEN LET l1 == [lx EXCEPT !.bracket_depth = @ - 1] IN
         IF l1.bracket_depth = 0
         THEN Returns(_pop_state(OneChar(l1, "CODE_CLOSE", ch)))
         ELSE Returns(OneChar(l1, "RBRACKET", ch))
    ELSE _lex_normal(src, lx)

\* tokenize() that returns without its EOF token
EndOfInputNoEof(lx) ==
    IF lx.state = "INTERP_STRING" THEN Raises(lx, "unterminated interpreted string")
    ELSE IF lx.state = "CODE_MODE" THEN Raises(lx, "unterminated code mode in string")
    ELSE Returns(lx)

\* tokenize() after its loop: the checks for an unclosed state, the EOF token
EndOfInput(lx) ==
    IF lx.state = "INTERP_STRING" THEN Raises(lx, "unterminated interpreted string")
    ELSE IF lx.state = "CODE_MODE" THEN Raises(lx, "unterminated code mode in string")
    ELSE Returns(_emit(lx, "EOF", <<>>, <<>>, lx.pos))

----------------------------------------------------------------------------
(* Parser (src/src/picodoc/parser.py) *)

\* The navigation state of a Parser is ps = [pos, bracket_depth]; toks is
\* self._tokens.  A parsing method yields the state it leaves, the node it
\* returns and the message of the ParseError it raises ("" when none).
\* Nodes carry no span.

Parsed(ps, node) == [ps |-> ps, error |-> "", node |-> node]

ParseError(ps, message) == [ps |-> ps, error |-> message, node |-> None]

\* the ParseError of r goes up; else the method goes on with what r holds
Then(r, Go(_)) == IF r.error # "" THEN r ELSE Go(r)

\* the method goes on with a value it computed
With(v, Go(_)) == Go(v)

_STOP_NEWLINE_EOF == {"NEWLINE", "EOF"}

_STOP_NEWLINE_RBRACKET_EOF == {"NEWLINE", "RBRACKET", "EOF"}

_STOP_RBRACKET_EOF == {"RBRACKET", "EOF"}

_STOP_CODE_CLOSE_EOF == {"CODE_CLOSE", "EOF"}

_TEXT_TOKENS == {"IDENTIFIER", "TEXT", "WS", "COLON", "EQUALS", "QUESTION"}

\* Parser._peek
PeekToken(toks, ps, offset) ==
    IF ps.pos + offset < Len(toks) THEN toks[ps.pos + offset + 1]
    ELSE toks[Len(toks)]

_at(toks, ps, types) == PeekToken(toks, ps, 0).type \in types

_at_eof(toks, ps) == PeekToken(toks, ps, 0).type = "EOF"

\* Parser._advance: the parser after it
Consumed(toks, ps) ==
    IF toks[ps.pos + 1].type # "EOF" THEN [ps EXCEPT !.pos = @ + 1] ELSE ps

\* Parser._expect: the node is the token consumed
_expect(toks, ps, tt, message) ==
    IF PeekToken(toks, ps, 0).type # tt THEN ParseError(ps, message)
    ELSE Parsed(Consumed(toks, ps), toks[ps.pos + 1])

_skip_ws(toks, ps) == IF _at(toks, ps, {"WS"}) THEN Consumed(toks, ps) ELSE ps

_unbr_body_stop(ps) ==
    IF ps.bracket_depth > 0 THEN _STOP_NEWLINE_RBRACKET_EOF ELSE _STOP_NEWLINE_EOF

_is_blank_line(toks, ps) ==
    \/ _at(toks, ps, {"NEWLINE"})
    \/ /\ _at(toks, ps, {"WS"})
       /\ PeekToken(toks, ps, 1).type \in {"NEWLINE", "EOF"}

_skip_blank_line(toks, ps) ==
    LET p1 == _skip_ws(toks, ps) IN
    IF _at(toks, p1, {"NEWLINE"}) THEN Consumed(toks, p1) ELSE p1

_at_block_start(toks, ps) ==
    \/ _at(toks, ps, {"HASH"})
    \/ _at(toks, ps, {"LBRACKET"}) /\ PeekToken(toks, ps, 1).type = "HASH"

_is_named_arg_start(toks, ps) ==
    _at(toks, ps, {"IDENTIFIER"}) /\ PeekToken(toks, ps, 1).type = "EQUALS"

\* "".join(parts)
RECURSIVE JoinParts(_)
JoinParts(parts) ==
    IF parts = <<>> THEN <<>> ELSE Head(parts) \o JoinParts(Tail(parts))

\* flush() of _parse_inline_content and of _parse_interp_string: the list
\* with the pending text appended
Flushed(acc, text_parts) ==
    IF text_parts # <<>> THEN Append(acc, Text(JoinParts(text_parts))) ELSE acc

RECURSIVE _coalesce_text(_)
_coalesce_text(nodes) ==
    IF Len(nodes) < 2 THEN nodes
    ELSE LET before == _coalesce_text(SubSeq(nodes, 1, Len(nodes) - 1))
             node == nodes[Len(nodes)]
             prev == before[Len(before)] IN
         IF node.kind = "Text" /\ prev.kind = "Text"
         THEN [before EXCEPT ![Len(before)] = Text(prev.value \o node.value)]
         ELSE Append(before, node)

\* _parse_inline_content, a code section of a string in body context: the
\* raw text of every token up to CODE_CLOSE, STRING_END or EOF
RECURSIVE CodeAsText(_, _, _)
CodeAsText(toks, ps, text_parts) ==
    IF _at(toks, ps, {"CODE_CLOSE", "STRING_END", "EOF"})
    THEN IF _at(toks, ps, {"CODE_CLOSE"})
         THEN [ps |-> Consumed(toks, ps),
               text_parts |-> Append(text_parts, PeekToken(toks, ps, 0).raw)]
         ELSE [ps |-> ps, text_parts |-> text_parts]
    ELSE CodeAsText(toks, Consumed(toks, ps),
                    Append(text_parts, PeekToken(toks, ps, 0).raw))

\* _parse_inline_content, a string in body context after its STRING_START:
\* reconstructed as text including the quotes
RECURSIVE StringAsText(_, _, _)
StringAsText(toks, ps, text_parts) ==
    LET inner == PeekToken(toks, ps, 0) IN
    IF inner.type \in {"STRING_TEXT", "STRING_ESCAPE"}
    THEN StringAsText(toks, Consumed(toks, ps), Append(text_parts, inner.value))
    ELSE IF inner.type = "CODE_OPEN"
    THEN With(CodeAsText(toks, Consumed(toks, ps), Append(text_parts, inner.raw)),
              LAMBDA c : StringAsText(toks, c.ps, c.text_parts))
    ELSE IF inner.type = "STRING_END"
    THEN [ps |-> Consumed(toks, ps), text_parts |-> Append(text_parts, <<"\"">>)]
    ELSE [ps |-> ps, text_parts |-> text_parts]

RECURSIVE InlineLoop(_, _, _, _, _)
RECURSIVE _parse_unbracketed_call(_, _)
RECURSIVE _parse_bracketed_call(_, _)
RECURSIVE NamedArgsLoop(_, _, _)
RECURSIVE _parse_named_arg(_, _)
RECURSIVE _parse_arg_value(_, _)
RECURSIVE _parse_colon_unbr_body(_, _)
RECURSIVE _parse_colon_bracket_body(_, _)
RECURSIVE BodyParagraphLoop(_, _, _)
RECURSIVE InterpLoop(_, _, _, _)
RECURSIVE _parse_code_section(_, _)

\* the while loop of _parse_inline_content and the flush() after it
InlineLoop(toks, ps, stop, acc, text_parts) ==
    LET tok == PeekToken(toks, ps, 0) IN
    IF tok.type = "EOF" \/ tok.type \in stop
    THEN Parsed(ps, Flushed(acc, text_parts))
    ELSE IF tok.type = "HASH"
    THEN Then(_parse_unbracketed_call(toks, ps),
              LAMBDA r : InlineLoop(toks, r.ps, stop,
                                    Append(Flushed(acc, text_parts), r.node), <<>>))
    ELSE IF tok.type = "LBRACKET" /\ PeekToken(toks, ps, 1).type = "HASH"
    THEN Then(_parse_bracketed_call(toks, ps),
              LAMBDA r : InlineLoop(toks, r.ps, stop,
                                    Append(Flushed(acc, text_parts), r.node), <<>>))
    ELSE IF tok.type = "LBRACKET"
    THEN ParseError(ps, "bare '[' in text")
    ELSE IF tok.type = "RBRACKET" /\ "RBRACKET" \notin stop
    THEN ParseError(ps, "bare ']' in text")
    ELSE IF tok.type = "ESCAPE"
    THEN InlineLoop(toks, Consumed(toks, ps), stop,
                    Append(Flushed(acc, text_parts), Escape(tok.value)), <<>>)
    ELSE IF tok.type \in _TEXT_TOKENS
    THEN InlineLoop(toks, Consumed(toks, ps), stop, acc,
                    Append(text_parts, tok.value))
    ELSE IF tok.type = "NEWLINE" /\ "NEWLINE" \notin stop
    THEN InlineLoop(toks, Consumed(toks, ps), stop, acc,
                    Append(text_parts, <<"\n">>))
    ELSE IF tok.type = "STRING_START"
    THEN With(StringAsText(toks, Consumed(toks, ps), Append(text_parts, <<"\"">>)),
              LAMBDA s : InlineLoop(toks, s.ps, stop, acc, s.text_parts))
    ELSE IF tok.type = "RAW_STRING"
    THEN InlineLoop(toks, Consumed(toks, ps), stop, acc,
                    Append(text_parts, tok.value))
    ELSE Parsed(ps, Flushed(acc, text_parts))

_parse_inline_content(toks, ps, stop) == InlineLoop(toks, ps, stop, <<>>, <<>>)

_parse_raw_string(toks, ps) ==
    Then(_expect(toks, ps, "RAW_STRING", "expected raw string"),
         LAMBDA r : Parsed(r.ps, RawString(r.node.value)))

\* the while loop of _parse_interp_string and what follows it
InterpLoop(toks, ps, parts, text_parts) ==
    LET tok == PeekToken(toks, ps, 0) IN
    IF tok.type \in {"STRING_END", "EOF"}
    THEN Then(_expect(toks, ps, "STRING_END", "expected closing '\"'"),
              LAMBDA r : Parsed(r.ps, InterpString(Flushed(parts, text_parts))))
    ELSE IF tok.type \in {"STRING_TEXT", "STRING_ESCAPE"}
    THEN InterpLoop(toks, Consumed(toks, ps), parts, Append(text_parts, tok.value))
    ELSE IF tok.type = "CODE_OPEN"
    THEN Then(_parse_code_section(toks, ps),
              LAMBDA r : InterpLoop(toks, r.ps,
                                    Append(Flushed(parts, text_parts), r.node), <<>>))
    ELSE ParseError(ps, "unexpected token in string")

_parse_interp_string(toks, ps) == InterpLoop(toks, Consumed(toks, ps), <<>>, <<>>)

_parse_code_section(toks, ps) ==
    Then(_parse_inline_content(toks, Consumed(toks, ps), _STOP_CODE_CLOSE_EOF),
         LAMBDA c :
            Then(_expect(toks, c.ps, "CODE_CLOSE", "expected closing ']' for code section"),
                 LAMBDA r : Parsed(r.ps, CodeSection(c.node))))

_parse_string_body(toks, ps) ==
    IF _at(toks, ps, {"STRING_START"}) THEN _parse_interp_string(toks, ps)
    ELSE IF _at(toks, ps, {"RAW_STRING"}) THEN _parse_raw_string(toks, ps)
    ELSE ParseError(ps, "expected string literal")

\* the while loop of _parse_body_paragraph and what follows it
BodyParagraphLoop(toks, ps, children) ==
    IF _at_eof(toks, ps) \/ _is_blank_line(toks, ps)
    THEN Parsed(ps, Body(_coalesce_text(children)))
    ELSE Then(_parse_inline_content(toks, ps, _unbr_body_stop(ps)),
              LAMBDA line :
                 IF _at(toks, line.ps, {"NEWLINE"})
                 THEN With(Consumed(toks, line.ps),
                           LAMBDA p1 :
                              BodyParagraphLoop(toks, p1,
                                  IF ~_at_eof(toks, p1) /\ ~_is_blank_line(toks, p1)
                                  THEN Append(children \o line.node, Text(<<"\n">>))
                                  ELSE children \o line.node))
                 ELSE Parsed(line.ps, Body(_coalesce_text(children \o line.node))))

_parse_body_paragraph(toks, ps) == BodyParagraphLoop(toks, ps, <<>>)

\* the Body of the inline content parsed
InlineBody(c) == Parsed(c.ps, Body(_coalesce_text(c.node)))

\* _parse_colon_unbr_body after the colon and the whitespace
UnbrBody(toks, p1) ==
    IF _at(toks, p1, {"STRING_START"}) THEN _parse_interp_string(toks, p1)
    ELSE IF _at(toks, p1, {"RAW_STRING"}) THEN _parse_raw_string(toks, p1)
    ELSE IF _at(toks, p1, {"NEWLINE", "EOF"})
    THEN _parse_body_paragraph(toks,
             IF _at(toks, p1, {"NEWLINE"}) THEN Consumed(toks, p1) ELSE p1)
    ELSE Then(_parse_inline_content(toks, p1, _unbr_body_stop(p1)), InlineBody)

_parse_colon_unbr_body(toks, ps) == UnbrBody(toks, _skip_ws(toks, Consumed(toks, ps)))

\* _parse_colon_bracket_body after the colon and the whitespace
BracketBody(toks, p1) ==
    IF _at(toks, p1, {"STRING_START"}) THEN _parse_interp_string(toks, p1)
    ELSE IF _at(toks, p1, {"RAW_STRING"}) THEN _parse_raw_string(toks, p1)
    ELSE Then(_parse_inline_content(toks, p1, _STOP_RBRACKET_EOF), InlineBody)

_parse_colon_bracket_body(toks, ps) ==
    BracketBody(toks, _skip_ws(toks, Consumed(toks, ps)))

_parse_macro_ref(toks, ps) ==
    Then(_expect(toks, Consumed(toks, ps), "IDENTIFIER", "expected macro name after '#'"),
         LAMBDA r : Parsed(r.ps, MacroCall(r.node.value, <<>>, None, FALSE)))

\* the while loop of _parse_bareword: the tokens it consumes
RECURSIVE BarewordLoop(_, _, _)
BarewordLoop(toks, ps, parts) ==
    IF _at(toks, ps, {"IDENTIFIER", "TEXT"})
    THEN BarewordLoop(toks, Consumed(toks, ps),
                      Append(parts, PeekToken(toks, ps, 0).value))
    ELSE Parsed(ps, Text(JoinParts(parts)))

_parse_bareword(toks, ps) ==
    IF ~_at(toks, ps, {"IDENTIFIER", "TEXT"})
    THEN ParseError(ps, "expected argument value")
    ELSE BarewordLoop(toks, ps, <<>>)

_parse_arg_value(toks, ps) ==
    IF _at(toks, ps, {"STRING_START"}) THEN _parse_interp_string(toks, ps)
    ELSE IF _at(toks, ps, {"RAW_STRING"}) THEN _parse_raw_string(toks, ps)
    ELSE IF _at(toks, ps, {"LBRACKET"}) /\ PeekToken(toks, ps, 1).type = "HASH"
    THEN _parse_bracketed_call(toks, ps)
    ELSE IF _at(toks, ps, {"HASH"}) THEN _parse_macro_ref(toks, ps)
    ELSE IF _at(toks, ps, {"QUESTION"}) THEN Parsed(Consumed(toks, ps), RequiredMarker)
    ELSE _parse_bareword(toks, ps)

_parse_named_arg(toks, ps) ==
    Then(_expect(toks, ps, "IDENTIFIER", "expected argument name"),
         LAMBDA name_tok :
            Then(_expect(toks, name_tok.ps, "EQUALS", "expected '=' after argument name"),
                 LAMBDA eq :
                    Then(_parse_arg_value(toks, _skip_ws(toks, eq.ps)),
                         LAMBDA v : Parsed(v.ps, NamedArg(name_tok.node.value, v.node)))))

\* the while loop of _parse_named_args
NamedArgsLoop(toks, ps, args) ==
    IF _at(toks, ps, {"WS"})
    THEN IF _is_named_arg_start(toks, Consumed(toks, ps))
         THEN Then(_parse_named_arg(toks, Consumed(toks, ps)),
                   LAMBDA a : NamedArgsLoop(toks, a.ps, Append(args, a.node)))
         ELSE Parsed(Consumed(toks, ps), args)
    ELSE Parsed(ps, args)

_parse_named_args(toks, ps) ==
    Then(_parse_named_arg(toks, ps), LAMBDA a : NamedArgsLoop(toks, a.ps, <<a.node>>))

\* _parse_unbracketed_call and _parse_bracketed_call after the named
\* arguments: the body that follows them, None when there is none
BodyAfterArgs(toks, ps, bracketed) ==
    IF _at(toks, ps, {"COLON"})
    THEN IF bracketed THEN _parse_colon_bracket_body(toks, ps)
         ELSE _parse_colon_unbr_body(toks, ps)
    ELSE IF _at(toks, ps, {"STRING_START", "RAW_STRING"})
    THEN _parse_string_body(toks, ps)
    ELSE Parsed(ps, None)

\* a MacroCall of the arguments and the body parsed, or their ParseError
CallOf(nm, args, body, bracketed) ==
    Then(body, LAMBDA b : Parsed(b.ps, MacroCall(nm, args, b.node, bracketed)))

\* _parse_unbracketed_call after the name, nm, which ends at p1
UnbracketedCall(toks, p1, nm) ==
    IF _at(toks, p1, {"STRING_START", "RAW_STRING"})
    THEN CallOf(nm, <<>>, _parse_string_body(toks, p1), FALSE)
    ELSE IF _at(toks, p1, {"COLON"})
    THEN CallOf(nm, <<>>, _parse_colon_unbr_body(toks, p1), FALSE)
    ELSE IF _at(toks, p1, {"WS"})
    THEN IF _is_named_arg_start(toks, Consumed(toks, p1))
         THEN Then(_parse_named_args(toks, Consumed(toks, p1)),
                   LAMBDA a : CallOf(nm, a.node, BodyAfterArgs(toks, a.ps, FALSE), FALSE))
         ELSE IF _at(toks, Consumed(toks, p1), {"COLON", "STRING_START", "RAW_STRING"})
         THEN CallOf(nm, <<>>, BodyAfterArgs(toks, Consumed(toks, p1), FALSE), FALSE)
         ELSE Parsed(p1, MacroCall(nm, <<>>, None, FALSE))
    ELSE Parsed(p1, MacroCall(nm, <<>>, None, FALSE))

_parse_unbracketed_call(toks, ps) ==
    Then(_expect(toks, Consumed(toks, ps), "IDENTIFIER", "expected macro name after '#'"),
         LAMBDA name_tok : UnbracketedCall(toks, name_tok.ps, name_tok.node.value))

\* _parse_bracketed_call from the decrement of the bracket depth on
CloseBracket(toks, call) ==
    Then(call,
         LAMBDA c :
            Then(_expect(toks, [c.ps EXCEPT !.bracket_depth = @ - 1],
                         "RBRACKET", "expected closing ']'"),
                 LAMBDA r : Parsed(r.ps, c.node)))

\* _parse_bracketed_call after the name, nm, and the increment of the bracket
\* depth, up to the decrement
BracketedCall(toks, p1, nm) ==
    IF _at(toks, p1, {"STRING_START", "RAW_STRING"})
    THEN CallOf(nm, <<>>, _parse_string_body(toks, p1), TRUE)
    ELSE IF _at(toks, p1, {"COLON"})
    THEN CallOf(nm, <<>>, _parse_colon_bracket_body(toks, p1), TRUE)
    ELSE IF _at(toks, p1, {"WS"})
    THEN IF _is_named_arg_start(toks, Consumed(toks, p1))
         THEN Then(_parse_named_args(toks, Consumed(toks, p1)),
                   LAMBDA a : CallOf(nm, a.node, BodyAfterArgs(toks, a.ps, TRUE), TRUE))
         ELSE IF _at(toks, Consumed(toks, p1), {"COLON", "STRING_START", "RAW_STRING"})
         THEN CallOf(nm, <<>>, BodyAfterArgs(toks, Consumed(toks, p1), TRUE), TRUE)
         ELSE IF ~_at(toks, Consumed(toks, p1), {"RBRACKET"})
         THEN ParseError(Consumed(toks, p1),
                         "expected argument, ':' body, string body, or ']'")
         ELSE Parsed(Consumed(toks, p1), MacroCall(nm, <<>>, None, TRUE))
    ELSE Parsed(p1, MacroCall(nm, <<>>, None, TRUE))

_parse_bracketed_call(toks, ps) ==
    Then(_expect(toks, Consumed(toks, ps), "HASH", "expected '#' after '['"),
         LAMBDA hash :
            Then(_expect(toks, hash.ps, "IDENTIFIER", "expected macro name after '#'"),
                 LAMBDA name_tok :
                    CloseBracket(toks,
                        BracketedCall(toks, [name_tok.ps EXCEPT !.bracket_depth = @ + 1],
                                      name_tok.node.value))))

\* _parse_macro_block after the call: the optional whitespace is skipped,
\* the line must end
EndOfBlock(toks, p1, node) ==
    IF ~_at(toks, p1, {"NEWLINE", "EOF"})
    THEN ParseError(p1, "unexpected text after macro call")
    ELSE Parsed(IF _at(toks, p1, {"NEWLINE"}) THEN Consumed(toks, p1) ELSE p1, node)

_parse_macro_block(toks, ps) ==
    Then(IF _at(toks, ps, {"LBRACKET"}) THEN _parse_bracketed_call(toks, ps)
         ELSE _parse_unbracketed_call(toks, ps),
         LAMBDA call : EndOfBlock(toks, _skip_ws(toks, call.ps), call.node))

\* _parse_block, the loop that skips blank lines: the parser after it
RECURSIVE SkipBlankLines(_, _)
SkipBlankLines(toks, ps) ==
    IF ~_at_eof(toks, ps) /\ _is_blank_line(toks, ps)
    THEN SkipBlankLines(toks, _skip_blank_line(toks, ps))
    ELSE ps

\* the condition of the loop of _parse_paragraph
InParagraph(toks, ps) ==
    /\ ~_at_eof(toks, ps)
    /\ ~_is_blank_line(toks, ps)
    /\ ~_at_block_start(toks, ps)

\* one iteration of the loop of _parse_paragraph: the line is appended to
\* children, a NEWLINE is consumed and kept as text when the paragraph
\* continues
ParagraphIteration(toks, ps, children) ==
    Then(_parse_inline_content(toks, ps, _STOP_NEWLINE_EOF),
         LAMBDA line :
            IF _at(toks, line.ps, {"NEWLINE"})
            THEN Parsed(Consumed(toks, line.ps),
                        IF InParagraph(toks, Consumed(toks, line.ps))
                        THEN Append(children \o line.node, Text(<<"\n">>))
                        ELSE children \o line.node)
            ELSE Parsed(line.ps, children \o line.node))

\* Parser.__init__ and the locals of parse() and _parse_paragraph:
\* status is "idle" before the call, "document" in the loop of parse(),
\* "paragraph" in the loop of _parse_paragraph, then "returned" or "raised"
NewParser ==
    [status |-> "idle", pos |-> 0, bracket_depth |-> 0, children |-> <<>>,
     paragraph |-> <<>>, message |-> "", document |-> None]

Nav(p) == [pos |-> p.pos, bracket_depth |-> p.bracket_depth]

\* no tokenize() and no parse() call is in progress
FrontIdle ==
    /\ source = <<>>
    /\ lexer = NewLexer
    /\ lexed = [status |-> "idle", message |-> ""]
    /\ iterations = 0
    /\ parser = NewParser

----------------------------------------------------------------------------
(* The evaluation machine *)

\* Frames of the stack, by the field k:
\*   "top"    _expand_top_level: todo, acc; include tells an included file
\*   "body"   _expand_body_children: todo, acc; ret tells what the caller
\*            does with the list
\*   "interp" _expand_interp_string: todo (parts), acc (new parts), ret
\*   "rows"   _parse_pipe_rows: todo, rows, bracketed
\*   "um"     _expand_user_macro after the push on the call stack
\* defs_entry and defs_install of an "um" frame are history: ctx.definitions
\* at the entry of the call and just before the shadowing loop.

Top == stack[Len(stack)]

Below == stack[Len(stack) - 1]

Running == phase = "expand" /\ stack # <<>>

AtChild == Running /\ Top.k \in {"top", "body", "rows"} /\ Top.todo # <<>>

child == Head(Top.todo)

AtMacro == AtChild /\ child.kind = "MacroCall"

name == resolve_name(child.name)

Advance(f) == [f EXCEPT !.todo = Tail(@)]

\* result.extend(nodes) in the loop that frame f is
Deliver(f, nodes) ==
    IF f.k = "rows" THEN [f EXCEPT !.rows = AppendToCell(@, nodes)]
    ELSE [f EXCEPT !.acc = @ \o nodes]

\* the child expanded to nodes without recursion
Yielded(nodes) == [stack EXCEPT ![Len(stack)] = Deliver(Advance(Top), nodes)]

\* the child needs a recursive call
Pushed(frame) == Append([stack EXCEPT ![Len(stack)] = Advance(Top)], frame)

\* the innermost activation returns nodes to the loop that called it
Returned(nodes) ==
    Append(SubSeq(stack, 1, Len(stack) - 2), Deliver(Below, nodes))

TopFrame(children, inc) ==
    [k |-> "top", todo |-> children, acc |-> <<>>, include |-> inc]

BodyFrame(children, ret) == [k |-> "body", todo |-> children, acc |-> <<>>, ret |-> ret]

InterpFrame(parts, ret) == [k |-> "interp", todo |-> parts, acc |-> <<>>, ret |-> ret]

RowsFrame(children, bracketed) ==
    [k |-> "rows", todo |-> children, rows |-> << << <<>> >> >>, bracketed |-> bracketed]

Wrap(node, args) ==
    [r |-> "wrap", name |-> node.name, args |-> args, bracketed |-> node.bracketed]

IsDirective(n) ==
    \/ StartsWith(n, "env.")
    \/ n \in {"comment", "set", "ifeq", "ifne", "ifset", "include", "table"}

\* the test for user-macro expansion without the registry: a definition of
\* a builtin's name would be expanded
IsUserIgnoringBuiltins(n) == ~IsDirective(n) /\ n \in DOMAIN definitions

IsUser(n) == ~IsDirective(n) /\ n \in DOMAIN definitions /\ n \notin BUILTINS

IsDot(n) ==
    /\ ~IsDirective(n) /\ ~IsUser(n)
    /\ EndsWith(n, ".")
    /\ DropLast(n) \in DOMAIN definitions
    /\ DropLast(n) \notin BUILTINS

Raise(e) == phase' = "unwinding" /\ err' = e

\* evaluate() with ctx.env = env in place of ctx.env.update(env): the context
\* and the caller share one map
CallerEnvAliased(caller, e) == e

\* the caller-supplied env map once ctx.env has become e: evaluate() copies
\* the entries into the dict of its fresh context (ctx.env.update(env)), so a
\* write to ctx.env does not reach the caller's map
CallerEnv(caller, e) == caller

Init ==
    /\ doc \in Docs
    /\ envIn \in EnvPool
    /\ round = 1
    /\ first = None
    /\ phase = "start"
    /\ definitions = EmptyDict
    /\ env = envIn
    /\ include_stack = <<ResolvePath(source_dir, RootFile)>>
    /\ call_stack = <<>>
    /\ stack = <<>>
    /\ result = None
    /\ err = None
    /\ FrontIdle

\* evaluate(), pass 1
CollectDefinitions ==
    /\ phase = "start"
    /\ LET c == _collect_definitions(doc, definitions, env) IN
       /\ definitions' = c.definitions
       /\ env' = c.env
       /\ IF c.error # None
          THEN phase' = "error" /\ err' = c.error /\ stack' = stack
          ELSE phase' = "expand" /\ err' = err /\ stack' = <<TopFrame(doc, FALSE)>>
    /\ envIn' = CallerEnv(envIn, env')
    /\ UNCHANGED <<doc, round, first, include_stack, call_stack, result>>
    /\ UNCHANGED front

\* _expand_top_node on a Paragraph
ExpandParagraph ==
    /\ AtChild /\ child.kind = "Paragraph"
    /\ stack' = Pushed(BodyFrame(child.body, [r |-> "para"]))
    /\ UNCHANGED <<doc, envIn, round, first, phase, definitions, env,
                   include_stack, call_stack, result, err>>
    /\ UNCHANGED front

\* a Text or Escape child: appended, or in a pipe table split into cells
ExpandLiteral ==
    /\ AtChild /\ child.kind \notin {"MacroCall", "Paragraph"}
    /\ stack' = IF Top.k = "rows" /\ child.kind = "Text"
                THEN [stack EXCEPT ![Len(stack)] =
                        [Advance(Top) EXCEPT
                            !.rows = _split_text_into_rows(child, Top.rows)]]
                ELSE Yielded(<<child>>)
    /\ UNCHANGED <<doc, envIn, round, first, phase, definitions, env,
                   include_stack, call_stack, result, err>>
    /\ UNCHANGED front

\* _expand_macro on #env.K
ExpandEnvRef ==
    /\ AtMacro /\ StartsWith(name, "env.")
    /\ LET env_key == DropFirst(name, 4) IN
       stack' = Yielded(IF env_key \in DOMAIN env THEN <<Text(env[env_key])>> ELSE <<>>)
    /\ UNCHANGED <<doc, envIn, round, first, phase, definitions, env,
                   include_stack, call_stack, result, err>>
    /\ UNCHANGED front

\* _expand_macro on #comment
ExpandComment ==
    /\ AtMacro /\ name = "comment"
    /\ stack' = Yielded(<<>>)
    /\ UNCHANGED <<doc, envIn, round, first, phase, definitions, env,
                   include_stack, call_stack, result, err>>
    /\ UNCHANGED front

\* _expand_set
ExpandSet ==
    /\ AtMacro /\ name = "set"
    /\ LET name_val == _get_arg(child, "name") IN
       IF name_val = None THEN UNCHANGED <<definitions, env>>
       ELSE LET def_name == _resolve_value(name_val, definitions, env) IN
            /\ definitions' = Put(definitions, def_name, child)
            /\ env' = IF StartsWith(def_name, "env.")
                      THEN Put(env, DropFirst(def_name, 4), _extract_def_text(child))
                      ELSE env
    /\ stack' = Yielded(<<>>)
    /\ envIn' = CallerEnv(envIn, env')
    /\ UNCHANGED <<doc, round, first, phase, include_stack, call_stack, result, err>>
    /\ UNCHANGED front

\* the condition of _expand_ifeq, _expand_ifne, _expand_ifset
Condition(node) ==
    CASE resolve_name(node.name) \in {"ifeq", "ifne"} ->
            LET lhs_val == _get_arg(node, "lhs")
                rhs_val == _get_arg(node, "rhs") IN
            IF lhs_val = None \/ rhs_val = None THEN FALSE
            ELSE LET lhs == _resolve_value(lhs_val, definitions, env)
                     rhs == _resolve_value(rhs_val, definitions, env) IN
                 IF resolve_name(node.name) = "ifeq" THEN lhs = rhs ELSE lhs # rhs
      [] resolve_name(node.name) = "ifset" ->
            LET name_val == _get_arg(node, "name") IN
            IF name_val = None THEN FALSE
            ELSE LET n == _resolve_value(name_val, definitions, env) IN
                 IF StartsWith(n, "env.") THEN DropFirst(n, 4) \in DOMAIN env
                 ELSE n \in DOMAIN definitions

\* _expand_ifeq, _expand_ifne, _expand_ifset with _get_condition_body
ExpandCondition ==
    /\ AtMacro /\ name \in {"ifeq", "ifne", "ifset"}
    /\ stack' = IF Condition(child) /\ child.body.kind = "Body"
                THEN Pushed(BodyFrame(child.body.children, [r |-> "splice"]))
                ELSE Yielded(<<>>)
    /\ UNCHANGED <<doc, envIn, round, first, phase, definitions, env,
                   include_stack, call_stack, result, err>>
    /\ UNCHANGED front

IncludeDepthError ==
    EvalError("include depth limit (" \o NumStr(max_include_depth) \o ") exceeded",
              <<>>, "_expand_include")

CircularIncludeError(filename) ==
    EvalError("circular include detected: " \o filename, <<>>, "_expand_include")

\* the depth check off by one: a seventeenth path would be pushed
IncludeDepthOffByOne(stk) == Len(stk) > max_include_depth

IncludeDepthExceeded(stk) == Len(stk) >= max_include_depth

\* _expand_include up to the push on the include stack
ExpandInclude ==
    /\ AtMacro /\ name = "include"
    /\ LET file_val == _get_arg(child, "file") IN
       IF file_val = None
       THEN /\ stack' = Yielded(<<>>)
            /\ UNCHANGED <<phase, include_stack, err>>
       ELSE LET filename == _resolve_value(file_val, definitions, env) IN
            LET resolved == ResolvePath(source_dir, filename) IN
            IF IncludeDepthExceeded(include_stack)
            THEN /\ Raise(IncludeDepthError)
                 /\ UNCHANGED <<stack, include_stack>>
            ELSE IF \E i \in 1..Len(include_stack) : include_stack[i] = resolved
            THEN /\ Raise(CircularIncludeError(filename))
                 /\ UNCHANGED <<stack, include_stack>>
            ELSE IF ~ReadFile(resolved).found
            THEN /\ Raise(EvalError("included file not found: " \o filename, <<>>,
                                    "_expand_include"))
                 /\ UNCHANGED <<stack, include_stack>>
            ELSE /\ include_stack' = Append(include_stack, resolved)
                 /\ stack' = Pushed(TopFrame(ReadFile(resolved).children, TRUE))
                 /\ UNCHANGED <<phase, err>>
    /\ UNCHANGED <<doc, envIn, round, first, definitions, env, call_stack, result>>
    /\ UNCHANGED front

\* the finally of _expand_include and its return
ReturnInclude ==
    /\ Running /\ Top.k = "top" /\ Top.include /\ Top.todo = <<>>
    /\ include_stack' = SubSeq(include_stack, 1, Len(include_stack) - 1)
    /\ stack' = Returned(Top.acc)
    /\ UNCHANGED <<doc, envIn, round, first, phase, definitions, env, call_stack,
                   result, err>>
    /\ UNCHANGED front

\* _expand_table up to the recursion into the body
ExpandTable ==
    /\ AtMacro /\ name = "table"
    /\ stack' =
         IF child.body.kind # "Body" THEN Yielded(<<child>>)
         ELSE IF ~has_pipe(child.body.children)
         THEN Pushed(BodyFrame(child.body.children, Wrap(child, child.args)))
         ELSE Pushed(RowsFrame(child.body.children, child.bracketed))
    /\ UNCHANGED <<doc, envIn, round, first, phase, definitions, env,
                   include_stack, call_stack, result, err>>
    /\ UNCHANGED front

\* the end of _parse_pipe_rows and the rest of _expand_table
ReturnRows ==
    /\ Running /\ Top.k = "rows" /\ Top.todo = <<>>
    /\ stack' = Returned(<<BuildTable(FinishRows(Top.rows), Top.bracketed)>>)
    /\ UNCHANGED <<doc, envIn, round, first, phase, definitions, env,
                   include_stack, call_stack, result, err>>
    /\ UNCHANGED front

\* _expand_macro on a render-time macro
ExpandRenderTime ==
    /\ AtMacro /\ ~IsDirective(name) /\ ~IsUser(name) /\ ~IsDot(name)
    /\ LET new_args == _resolve_macro_args(child.args, definitions, env) IN
       stack' =
         CASE child.body.kind = "Body" ->
                Pushed(BodyFrame(child.body.children, Wrap(child, new_args)))
           [] child.body.kind = "InterpString" ->
                Pushed(InterpFrame(child.body.parts, Wrap(child, new_args)))
           [] OTHER ->
                Yielded(<<MacroCall(child.name, new_args, child.body, child.bracketed)>>)
    /\ UNCHANGED <<doc, envIn, round, first, phase, definitions, env,
                   include_stack, call_stack, result, err>>
    /\ UNCHANGED front

\* one part of _expand_interp_string
ExpandInterpPart ==
    /\ Running /\ Top.k = "interp" /\ Top.todo # <<>>
    /\ LET part == Head(Top.todo) IN
       stack' = IF part.kind = "CodeSection"
                THEN Pushed(BodyFrame(part.body, [r |-> "codesec"]))
                ELSE [stack EXCEPT ![Len(stack)] =
                        [Advance(Top) EXCEPT !.acc = Append(@, part)]]
    /\ UNCHANGED <<doc, envIn, round, first, phase, definitions, env,
                   include_stack, call_stack, result, err>>
    /\ UNCHANGED front

\* the "um" frame below the top one, with the result of its body
WithResult(nodes) ==
    Append(SubSeq(stack, 1, Len(stack) - 2),
           [Below EXCEPT !.result = nodes, !.stage = "ret"])

\* _expand_interp_string returns
ReturnInterp ==
    /\ Running /\ Top.k = "interp" /\ Top.todo = <<>>
    /\ stack' =
         IF Top.ret.r = "wrap"
         THEN Returned(<<MacroCall(Top.ret.name, Top.ret.args, InterpString(Top.acc),
                                   Top.ret.bracketed)>>)
         ELSE WithResult(_interp_to_children(InterpString(Top.acc)))
    /\ UNCHANGED <<doc, envIn, round, first, phase, definitions, env,
                   include_stack, call_stack, result, err>>
    /\ UNCHANGED front

\* _expand_body_children returns
ReturnBody ==
    /\ Running /\ Top.k = "body" /\ Top.todo = <<>>
    /\ stack' =
         CASE Top.ret.r = "splice" -> Returned(Top.acc)
           [] Top.ret.r = "para" ->
                Returned(<<MacroCall("p", <<>>, Body(Top.acc), FALSE)>>)
           [] Top.ret.r = "wrap" ->
                Returned(<<MacroCall(Top.ret.name, Top.ret.args, Body(Top.acc),
                                     Top.ret.bracketed)>>)
           [] Top.ret.r = "codesec" ->
                Append(SubSeq(stack, 1, Len(stack) - 2),
                       [Below EXCEPT !.acc = Append(@, CodeSection(Top.acc))])
           [] Top.ret.r = "binding" ->
                Append(SubSeq(stack, 1, Len(stack) - 2),
                       [Below EXCEPT !.resolved =
                            Append(@, [name |-> Top.ret.param, value |-> Top.acc])])
           [] Top.ret.r = "umbody" -> WithResult(Top.acc)
    /\ UNCHANGED <<doc, envIn, round, first, phase, definitions, env,
                   include_stack, call_stack, result, err>>
    /\ UNCHANGED front

MissingArgumentError(param_name, chain) ==
    EvalError("missing required argument: " \o param_name, chain, "_expand_user_macro")

\* the depth-limit error raised without the call chain
DepthLimitErrorNoChain(chain) ==
    EvalError("macro call depth limit (" \o NumStr(max_call_depth) \o ") exceeded",
              <<>>, "_expand_user_macro")

DepthLimitError(chain) ==
    EvalError("macro call depth limit (" \o NumStr(max_call_depth) \o ") exceeded",
              chain, "_expand_user_macro")

ShadowError(param_name, chain) ==
    EvalError("cannot shadow environment variable: " \o param_name, chain,
              "_expand_user_macro")

\* the depth check off by one: a sixty-fifth name would be pushed
CallDepthOffByOne(stk) == Len(stk) > max_call_depth

CallDepthExceeded(stk) == Len(stk) >= max_call_depth

UmFrame(uname, node, defn, bindings, dot) ==
    [k |-> "um", name |-> uname, node |-> node, defn |-> defn, dot |-> dot,
     bindings |-> bindings, resolved |-> <<>>, stage |-> "resolve",
     saved |-> EmptyDict, shadowed |-> <<>>, result |-> <<>>,
     defs_entry |-> definitions, defs_install |-> EmptyDict]

\* _expand_user_macro up to the push on the call stack (also the trailing-dot
\* form of _expand_macro)
ExpandUserMacro ==
    /\ AtMacro /\ (IsUser(name) \/ IsDot(name))
    /\ LET uname == IF IsUser(name) THEN name ELSE DropLast(name) IN
       LET defn == definitions[uname] IN
       LET b == Bind(child, defn) IN
       IF b.missing # <<>>
       THEN /\ Raise(MissingArgumentError(b.missing[1], call_stack))
            /\ UNCHANGED <<stack, call_stack>>
       ELSE IF CallDepthExceeded(call_stack)
       THEN /\ Raise(DepthLimitError(call_stack))
            /\ UNCHANGED <<stack, call_stack>>
       ELSE /\ call_stack' = Append(call_stack, uname)
            /\ stack' = Pushed(UmFrame(uname, child, defn, b.bindings, ~IsUser(name)))
            /\ UNCHANGED <<phase, err>>
    /\ UNCHANGED <<doc, envIn, round, first, definitions, env, include_stack, result>>
    /\ UNCHANGED front

\* the next bound value is expanded in the caller's scope
ResolveBinding ==
    /\ Running /\ Top.k = "um" /\ Top.stage = "resolve"
    /\ Len(Top.resolved) < Len(Top.bindings)
    /\ LET b == Top.bindings[Len(Top.resolved) + 1] IN
       stack' = Append(stack, BodyFrame(b.value, [r |-> "binding", param |-> b.name]))
    /\ UNCHANGED <<doc, envIn, round, first, phase, definitions, env,
                   include_stack, call_stack, result, err>>
    /\ UNCHANGED front

\* the shadowing loop, then the expansion of the definition's body begins
InstallBindings ==
    /\ Running /\ Top.k = "um" /\ Top.stage = "resolve"
    /\ Len(Top.resolved) = Len(Top.bindings)
    /\ LET st == Install(Top.resolved, definitions) IN
       LET f == [Top EXCEPT !.saved = st.saved, !.shadowed = st.shadowed,
                            !.defs_install = definitions] IN
       /\ definitions' = st.definitions
       /\ IF st.raised # <<>>
          THEN /\ Raise(ShadowError(st.raised[1], call_stack))
               /\ stack' = stack
          ELSE /\ UNCHANGED <<phase, err>>
               /\ stack' =
                    CASE Top.defn.body.kind = "Body" ->
                           Append([stack EXCEPT ![Len(stack)] = [f EXCEPT !.stage = "body"]],
                                  BodyFrame(Top.defn.body.children, [r |-> "umbody"]))
                      [] Top.defn.body.kind = "InterpString" ->
                           Append([stack EXCEPT ![Len(stack)] = [f EXCEPT !.stage = "body"]],
                                  InterpFrame(Top.defn.body.parts, [r |-> "umbody"]))
                      [] Top.defn.body.kind = "RawString" ->
                           [stack EXCEPT ![Len(stack)] =
                              [f EXCEPT !.stage = "ret",
                                        !.result = <<Text(Top.defn.body.value)>>]]
                      [] OTHER ->
                           [stack EXCEPT ![Len(stack)] = [f EXCEPT !.stage = "ret"]]
    /\ UNCHANGED <<doc, envIn, round, first, env, include_stack, call_stack, result>>
    /\ UNCHANGED front

\* both finally blocks of _expand_user_macro and its return
UserMacroReturn ==
    /\ Running /\ Top.k = "um" /\ Top.stage = "ret"
    /\ definitions' = Restore(definitions, Top.shadowed, Top.saved)
    /\ call_stack' = SubSeq(call_stack, 1, Len(call_stack) - 1)
    /\ stack' = Returned(Top.result \o (IF Top.dot THEN <<Text(".")>> ELSE <<>>))
    /\ UNCHANGED <<doc, envIn, round, first, phase, env, include_stack, result, err>>
    /\ UNCHANGED front

\* _expand_include without its try/finally: an exception leaves the
\* included file's path on the include stack
UnwoundKeepingInclude(f) ==
    [definitions |-> IF f.k = "um" /\ f.stage \in {"body", "ret"}
                     THEN Restore(definitions, f.shadowed, f.saved)
                     ELSE definitions,
     call_stack |-> IF f.k = "um"
                    THEN SubSeq(call_stack, 1, Len(call_stack) - 1)
                    ELSE call_stack,
     include_stack |-> include_stack]

\* the finally blocks an exception passes on its way out of frame f
Unwound(f) ==
    [definitions |-> IF f.k = "um" /\ f.stage \in {"body", "ret"}
                     THEN Restore(definitions, f.shadowed, f.saved)
                     ELSE definitions,
     call_stack |-> IF f.k = "um"
                    THEN SubSeq(call_stack, 1, Len(call_stack) - 1)
                    ELSE call_stack,
     include_stack |-> IF f.k = "top" /\ f.include
                       THEN SubSeq(include_stack, 1, Len(include_stack) - 1)
                       ELSE include_stack]

\* the exception leaves the innermost activation; out of the outermost one
\* it leaves evaluate()
Unwind ==
    /\ phase = "unwinding"
    /\ LET u == Unwound(Top) IN
       /\ definitions' = u.definitions
       /\ call_stack' = u.call_stack
       /\ include_stack' = u.include_stack
    /\ stack' = SubSeq(stack, 1, Len(stack) - 1)
    /\ phase' = IF Len(stack) = 1 THEN "error" ELSE "unwinding"
    /\ UNCHANGED <<doc, envIn, round, first, env, result, err>>
    /\ UNCHANGED front

\* evaluate() after _expand_top_level: the filter and _validate_nesting
Finish ==
    /\ Running /\ Top.k = "top" /\ ~Top.include /\ Top.todo = <<>>
    /\ LET d == Document(SelectSeq(Top.acc, IsMacroCall)) IN
       LET e == _validate_nesting(d) IN
       IF e # None
       THEN phase' = "error" /\ err' = e /\ UNCHANGED <<result, first>>
       ELSE /\ phase' = "done" /\ result' = d /\ err' = err
            /\ first' = IF round = 1 THEN d ELSE first
    /\ stack' = <<>>
    /\ UNCHANGED <<doc, envIn, round, definitions, env, include_stack, call_stack>>
    /\ UNCHANGED front

\* evaluate(D, filename, env) on the Document D the first evaluation returned
Reevaluate ==
    /\ phase = "done" /\ round = 1
    /\ doc' = result.children
    /\ round' = 2
    /\ phase' = "start"
    /\ definitions' = EmptyDict
    /\ env' = envIn
    /\ include_stack' = <<ResolvePath(source_dir, RootFile)>>
    /\ call_stack' = <<>>
    /\ stack' = <<>>
    /\ result' = None
    /\ UNCHANGED <<envIn, first, err>>
    /\ UNCHANGED front

Next ==
    \/ CollectDefinitions
    \/ ExpandParagraph
    \/ ExpandLiteral
    \/ ExpandEnvRef
    \/ ExpandComment
    \/ ExpandSet
    \/ ExpandCondition
    \/ ExpandInclude
    \/ ReturnInclude
    \/ ExpandTable
    \/ ReturnRows
    \/ ExpandRenderTime
    \/ ExpandInterpPart
    \/ ReturnInterp
    \/ ReturnBody
    \/ ExpandUserMacro
    \/ ResolveBinding
    \/ InstallBindings
    \/ UserMacroReturn
    \/ Unwind
    \/ Finish
    \/ Reevaluate

Spec == Init /\ [][Next]_vars

\* The documents of the liveness checks: every document of the recursion
\* kit, the shorter documents of the scope kit, and each node of the other
\* kits but the longest table as a document of its own
FairDocs ==
    Seqs(KitRec, MaxTop) \cup Seqs(KitScope, MaxTop - 1)
      \cup {<<n>> : n \in UNION Kits \ {PipeMacroTable}}

FairInit ==
    /\ doc \in FairDocs
    /\ envIn \in EnvPool
    /\ round = 1
    /\ first = None
    /\ phase = "start"
    /\ definitions = EmptyDict
    /\ env = envIn
    /\ include_stack = <<ResolvePath(source_dir, RootFile)>>
    /\ call_stack = <<>>
    /\ stack = <<>>
    /\ result = None
    /\ err = None
    /\ FrontIdle

\* evaluate() is one synchronous call: it runs until it returns or raises
FairSpec == FairInit /\ [][Next]_vars /\ WF_vars(Next)

----------------------------------------------------------------------------
(* tokenize() as a state machine: one step per iteration of its loop *)

\* the variables of the evaluator, which no step of the front end touches
back == <<doc, envIn, round, first, phase, definitions, env, include_stack,
          call_stack, stack, result, err>>

\* no evaluate() call is in progress
BackIdle ==
    /\ doc = <<>>
    /\ envIn = EmptyDict
    /\ round = 1
    /\ first = None
    /\ phase = "idle"
    /\ definitions = EmptyDict
    /\ env = EmptyDict
    /\ include_stack = <<>>
    /\ call_stack = <<>>
    /\ stack = <<>>
    /\ result = None
    /\ err = None

\* the longest source over Alphabet
MaxLen == 4

\* the longest source over QuoteAlphabet
MaxRawLen == 7

\* the most iterations of the loop of tokenize() that are followed
MaxIterations == 20

Words(S, n) == UNION {[1..k -> S] : k \in 0..n}

\* one character of each class _lex_normal tells apart
Alphabet == {"#", "[", "]", "\\", "\"", "\n", "\r", " ", "a", "x", ",", NUL}

\* the characters raw strings are made of
QuoteAlphabet == {"\"", "a", "\n", NUL}

\* longer sources: hex escapes, a tab, CRLF, every structural character,
\* a code section with a nested string and nested brackets
LongSources ==
    {<<"\\", "x", "4", "a">>,
     <<"\\", "U", "0", "0", "0", "0", "0", "0", "4", "1">>,
     <<"\\", "U", "0", "0", "1", "1", "0", "0", "0", "0">>,
     <<"\"", "\\", "x", "4", "1", "\\", "n", "\\", "t", "\"">>,
     <<"\"", "\\", "U", "0", "0", "0", "0", "0", "0", "4", "1", "\"">>,
     <<"#", "a", ":", " ", "x", "=", "?", "\t", "\r", "\n">>,
     <<"\"", "\\", "[", "#", "a", " ", "\"", "x", "\"", "]", "\"">>,
     <<"\"", "\\", "[", "[", "#", "a", "]", "]", "\"">>,
     <<"\"", "\\", "[", "\"", NUL, "\"", "]", "\"">>,
     <<"\"", "\\", "[", "\r", "]", "\"">>,
     <<"\"", "\\", "[", "\"", "[", "]", "]", "\"", "]", "\"">>,
     <<"\"", "\\", "[", "\\", "[", "\\", "]", "[", "]", "]", "\"">>,
     <<"\"", "\\", "[", "\"", "\\", "[", "[", "]", "]", "\"", "]", "\"">>,
     <<"\"", "\\", "[", "[", "\"", "\\", "[", "a">>,
     <<"\"", "\"", "\"", "\n", " ", " ", "a", "\n", " ", " ", "\"", "\"", "\"">>}

\* the longest code section after the opening of CodeSources
MaxCodeLen == 4

\* the characters code sections are made of
CodeAlphabet == {"[", "]", "\"", "\\", "a", "\r", NUL}

\* a string that opens a code section at once: "\[ and a word
CodeSources == {<<"\"", "\\", "[">> \o w : w \in Words(CodeAlphabet, MaxCodeLen)}

Sources ==
    Words(Alphabet, MaxLen) \cup Words(QuoteAlphabet, MaxRawLen) \cup CodeSources
      \cup LongSources

LexInit ==
    /\ source \in Sources
    /\ lexer = NewLexer
    /\ lexed = [status |-> "running", message |-> ""]
    /\ iterations = 0
    /\ parser = NewParser
    /\ BackIdle

\* the loop of tokenize() may run: while self._pos < len(self._source)
InLoop ==
    /\ lexed.status = "running"
    /\ lexer.pos < Len(source)
    /\ iterations < MaxIterations

\* the handler ran: the lexer is as it left it, a LexError ends tokenize()
Handled(r) ==
    /\ lexer' = r.lx
    /\ lexed' = IF r.error = "" THEN lexed
                ELSE [status |-> "raised", message |-> r.error]
    /\ iterations' = iterations + 1
    /\ UNCHANGED <<source, parser, back>>

LexNormal ==
    /\ InLoop /\ lexer.state = "NORMAL"
    /\ Handled(_lex_normal(source, lexer))

LexInterpString ==
    /\ InLoop /\ lexer.state = "INTERP_STRING"
    /\ Handled(_lex_interp_string(source, lexer))

LexCodeMode ==
    /\ InLoop /\ lexer.state = "CODE_MODE"
    /\ Handled(_lex_code_mode(source, lexer))

\* tokenize() after its loop
LexEnd ==
    /\ lexed.status = "running"
    /\ lexer.pos >= Len(source)
    /\ LET r == EndOfInput(lexer) IN
       /\ lexer' = r.lx
       /\ lexed' = IF r.error = "" THEN [status |-> "returned", message |-> ""]
                   ELSE [status |-> "raised", message |-> r.error]
    /\ UNCHANGED <<source, iterations, parser, back>>

LexNext ==
    \/ LexNormal
    \/ LexInterpString
    \/ LexCodeMode
    \/ LexEnd

LexSpec == LexInit /\ [][LexNext]_vars

----------------------------------------------------------------------------
(* parse() as a state machine: tokenize(), then one step per iteration of
   the loops of Parser.parse and Parser._parse_paragraph *)

\* the longest source over ParseAlphabet
MaxParseLen == 4

\* the longest tail of a source of CallSources
MaxCallLen == 4

\* one character of each class the parser tells apart by its token
ParseAlphabet == {"#", "[", "]", ":", "=", "?", "\"", "\n", " ", "a", "\\"}

\* the characters a macro call is made of
CallAlphabet == {"a", " ", "=", ":", "\"", "]", "?", "#", "\n"}

\* a bracketed and an unbracketed call of a macro, then a word
CallSources ==
    {<<"[", "#", "a">> \o w : w \in Words(CallAlphabet, MaxCallLen)}
      \cup {<<"#", "a", " ", "b", "=">> \o w : w \in Words(CallAlphabet, MaxCallLen)}

\* longer sources: strings in prose with code sections and nested strings,
\* bodies of every form, arguments of every form, blank lines
LongParseSources ==
    {<<"\"", "\\", "[", "\"", "a", "\"", "]", "\"">>,
     <<"a", " ", "\"", "x", "\\", "[", " ", "\"", "y", "\"", " ", "]", "z", "\"">>,
     <<"a", " ", "\"", "\\", "[", "#", "b", " ", "\"", "y", "\"", "]", "\"">>,
     <<"#", "p", ":", " ", "\"", "x", "\\", "[", "\"", "y", "\"", "]", "z", "\"">>,
     <<"#", "p", ":", "\n", "\"", "\\", "[", "\"", "y", "\"", "]", "\"">>,
     <<"[", "#", "p", ":", " ", "a", " ", "\"", "\\", "[", "\"", "y", "\"", "]", "\"", "]">>,
     <<"\"", "\\", "[", "[", "#", "b", "]", "]", "\"", "\n", "x">>,
     <<"#", "p", ":", "\n", "a", "\n", "b", "\n", "\n", "c", "\n", "d">>,
     <<"[", "#", "a", " ", "x", "=", "[", "#", "b", "]", " ", "y", "=", "#", "c", "]">>,
     <<"[", "#", "a", ":", " ", "#", "b", ":", " ", "c", "]", " ", "d">>,
     <<"[", "#", "a", ":", "\n", "[", "#", "b", ":", "\n", "c", "]", "]">>,
     <<"#", "a", " ", "x", "=", "\"", "\\", "[", "#", "b", "]", "\"", " ", ":", "c">>,
     <<"#", "a", "\"", "\"", "\"", "r", "\"", "\"", "\"", " ", "\n", " ", "\n", "t">>,
     <<"a", "\\", "#", " ", "\"", "\"", "\"", "r", "\"", "\"", "\"", "\n", "#", "b">>,
     <<"#", "a", " ", "x", "=", "?", " ", "y", "=", "b", ",", "c", " ", "z">>,
     <<"a", " ", "\"", "\"", "\"", "r", "\"", "\"", "\"", " ", "b">>,
     <<"a", " ", "\"", "x", "\\", "t", "y", "\"", " ", "b">>,
     <<"a", " ", "\"", "v", "\\", "[", "#", "b", "]", "w", "\"", " ", "c">>,
     <<"#", "p", ":", " ", "T", "h", "e", " ", "#", "v", " ", "i", "s", " ", "c", ".">>,
     <<"T", "h", "e", " ", "#", "v", " ", "x", "=", "1", " ", "i", "s", ".">>,
     <<"T", "h", "e", " ", "#", "v", " ", "x", "=", "1", " ", ":", "i", "s">>}

ParseSources ==
    Words(ParseAlphabet, MaxParseLen) \cup CallSources \cup LongParseSources

ParseInit ==
    /\ source \in ParseSources
    /\ lexer = NewLexer
    /\ lexed = [status |-> "running", message |-> ""]
    /\ parser = NewParser
    /\ iterations = 0
    /\ BackIdle

\* the parser after a method left it at ps
Moved(ps) == [parser EXCEPT !.pos = ps.pos, !.bracket_depth = ps.bracket_depth]

\* a ParseError ends parse()
ParseRaised(r) == [Moved(r.ps) EXCEPT !.status = "raised", !.message = r.error]

\* parse() after _parse_block returned the block of r or raised
BlockParsed(r) ==
    IF r.error # "" THEN ParseRaised(r)
    ELSE [Moved(r.ps) EXCEPT !.children = Append(@, r.node)]

\* _parse_paragraph after the iteration r of its loop: the next iteration,
\* or the Paragraph returned to parse() and appended to the children
LineParsed(r) ==
    IF r.error # "" THEN ParseRaised(r)
    ELSE IF InParagraph(lexer.tokens, r.ps)
    THEN [Moved(r.ps) EXCEPT !.paragraph = r.node]
    ELSE [Moved(r.ps) EXCEPT
             !.status = "document",
             !.paragraph = <<>>,
             !.children = Append(@, Paragraph(_coalesce_text(r.node)))]

\* parse(): the tokens of tokenize() go to a new Parser, whose parse()
\* starts with no children
ParseBegin ==
    /\ lexed.status = "returned"
    /\ parser.status = "idle"
    /\ parser' = [NewParser EXCEPT !.status = "document"]
    /\ iterations' = 0
    /\ UNCHANGED <<source, lexer, lexed, back>>

\* one iteration of the loop of Parser.parse: _parse_block skips the blank
\* lines and parses a macro block, or enters the loop of _parse_paragraph
ParseBlock ==
    /\ parser.status = "document"
    /\ ~_at_eof(lexer.tokens, Nav(parser))
    /\ LET p1 == SkipBlankLines(lexer.tokens, Nav(parser)) IN
       IF _at_eof(lexer.tokens, p1)
       THEN /\ parser' = Moved(p1)
            /\ iterations' = iterations + 1
       ELSE IF _at_block_start(lexer.tokens, p1)
       THEN /\ parser' = BlockParsed(_parse_macro_block(lexer.tokens, p1))
            /\ iterations' = iterations + 1
       ELSE /\ parser' = [Moved(p1) EXCEPT !.status = "paragraph", !.paragraph = <<>>]
            /\ UNCHANGED iterations
    /\ UNCHANGED <<source, lexer, lexed, back>>

\* one iteration of the loop of _parse_paragraph; when the loop ends with
\* it, the Paragraph is returned to parse() and appended to the children
ParagraphLine ==
    /\ parser.status = "paragraph"
    /\ iterations < MaxIterations
    /\ parser' = LineParsed(ParagraphIteration(lexer.tokens, Nav(parser),
                                               parser.paragraph))
    /\ iterations' = iterations + 1
    /\ UNCHANGED <<source, lexer, lexed, back>>

\* Parser.parse after its loop
ParseEnd ==
    /\ parser.status = "document"
    /\ _at_eof(lexer.tokens, Nav(parser))
    /\ parser' = [parser EXCEPT !.status = "returned",
                                !.document = Document(parser.children)]
    /\ UNCHANGED <<source, lexer, lexed, iterations, back>>

ParseNext ==
    \/ LexNormal
    \/ LexInterpString
    \/ LexCodeMode
    \/ LexEnd
    \/ ParseBegin
    \/ ParseBlock
    \/ ParagraphLine
    \/ ParseEnd

ParseSpec == ParseInit /\ [][ParseNext]_vars

----------------------------------------------------------------------------
(* Properties *)

Range(s) == {s[i] : i \in 1..Len(s)}

\* the definition of p in defs, None when there is none
DefOf(defs, p) == IF p \in DOMAIN defs THEN defs[p] ELSE None

\* a #set with a literal name
IsNamedSet(n) ==
    /\ n.kind = "MacroCall"
    /\ resolve_name(n.name) = "set"
    /\ _get_arg(n, "name").kind = "Text"

SetName(n) == _get_arg(n, "name").value

\* the names the top-level #set calls of a document define
TopLevelSetNames(children) ==
    {SetName(children[i]) : i \in {j \in 1..Len(children) : IsNamedSet(children[j])}}

\* a user-macro expansion is about to return normally
UserMacroReturns == Running /\ Top.k = "um" /\ Top.stage = "ret"

LoopCall ==
    /\ AtMacro /\ name = "loop"
    /\ DefOf(definitions, "loop") = LoopDef

\* a call to one of the mutually recursive macros ping and pong
PingCall ==
    /\ AtMacro /\ name \in {"ping", "pong"}
    /\ DefOf(definitions, "ping") = PingDef
    /\ DefOf(definitions, "pong") = PongDef

\* evaluate raised the depth-limit error with every name of cycle in its chain
DepthLimitRaised(cycle) ==
    /\ phase = "error"
    /\ StartsWith(err.message, "macro call depth limit")
    /\ cycle \subseteq Range(err.call_stack)

\* C2: expanding a call to a self-referential user macro or to mutually
\* recursive user macros always ends with EvalError "macro call depth
\* limit", whose call chain holds the name of every macro of the cycle.
C2_RecursionEndsInDepthError ==
    /\ LoopCall ~> DepthLimitRaised({"loop"})
    /\ PingCall ~> DepthLimitRaised({"ping", "pong"})

\* #ping with ping : #pong and pong : #ping failed at the limit
C2_MutualRecursionStopped ==
    /\ DepthLimitRaised({"ping", "pong"})
    /\ Len(err.call_stack) = max_call_depth
    /\ UsePing \in Range(doc)

\* an #include whose resolved path is already on the include stack
IncludeOnStack ==
    /\ AtMacro /\ name = "include"
    /\ _get_arg(child, "file") # None
    /\ ResolvePath(source_dir,
                   _resolve_value(_get_arg(child, "file"), definitions, env))
         \in Range(include_stack)

\* C3: an #include whose resolved path is already on the include stack (the
\* root document's own path included) raises EvalError "circular include"
\* and its file is not expanded.
C3_CircularIncludeRaised ==
    [][IncludeOnStack =>
         /\ phase' = "unwinding"
         /\ StartsWith(err'.message, "circular include")
         /\ include_stack' = include_stack
         /\ stack' = stack]_vars

\* the cycle main.pdoc, c1.pdoc .. c15.pdoc, main.pdoc was rejected by the
\* depth check
C3_CycleHitDepthLimit ==
    /\ phase = "error"
    /\ doc = <<Include("c1.pdoc")>>
    /\ err = IncludeDepthError

\* an #include attempted when the include stack is at the limit
IncludeAtLimit ==
    /\ AtMacro /\ name = "include"
    /\ _get_arg(child, "file") # None
    /\ Len(include_stack) >= max_include_depth

\* C4: the include stack never holds more than 16 resolved paths, the root
\* document's first: an #include attempted when 16 are on it raises
\* EvalError "include depth limit exceeded" without pushing.
C4_IncludeStackBounded ==
    /\ [](Len(include_stack) <= max_include_depth
            /\ include_stack[1] = ResolvePath(source_dir, RootFile))
    /\ [][IncludeAtLimit =>
            /\ phase' = "unwinding"
            /\ StartsWith(err'.message, "include depth limit")
            /\ EndsWith(err'.message, "exceeded")
            /\ include_stack' = include_stack
            /\ stack' = stack]_vars

\* the chain of distinct files f1.pdoc, f2.pdoc .. was stopped with 16 paths
\* on the stack
C4_ChainStoppedAtLimit ==
    /\ phase = "unwinding"
    /\ err = IncludeDepthError
    /\ Len(include_stack) = max_include_depth
    /\ include_stack[max_include_depth] = ResolvePath(source_dir, "f15.pdoc")

\* every tr, td, th and * below node n, n included, has an allowed immediate
\* parent; parent is the resolved name of the MacroCall around n, "" for none
RECURSIVE NestedWell(_, _)
NestedWell(n, parent) ==
    CASE n.kind = "MacroCall" ->
           LET r == resolve_name(n.name) IN
           /\ r = "tr" => parent = "table"
           /\ r \in {"td", "th"} => parent = "tr"
           /\ r = "*" => parent \in {"ul", "ol"}
           /\ NestedWell(n.body, r)
           /\ \A i \in 1..Len(n.args) : NestedWell(n.args[i].value, r)
      [] n.kind = "Body" ->
           \A i \in 1..Len(n.children) : NestedWell(n.children[i], parent)
      [] n.kind = "InterpString" ->
           \A i \in 1..Len(n.parts) : NestedWell(n.parts[i], parent)
      [] n.kind = "CodeSection" ->
           \A i \in 1..Len(n.body) : NestedWell(n.body[i], parent)
      [] OTHER -> TRUE

\* C5: whenever evaluate returns a Document, everywhere in that tree every
\* MacroCall whose resolved name is tr, td, th or * has as its immediate
\* parent a MacroCall whose resolved name is table, tr, tr, or ul/ol.
C5_ReturnedTreeNestedWell ==
    phase = "done" =>
        \A i \in 1..Len(result.children) : NestedWell(result.children[i], "")

\* [#p "a \[#td : x]"] was returned with its td under p
C5_TdInStringBodyReturned ==
    /\ phase = "done" /\ round = 1
    /\ doc = <<StringTd>>
    /\ result = Document(<<StringTd>>)

\* C6: re-evaluating a Document that evaluate returned is a no-op: the second
\* evaluation returns a tree structurally identical to the first.
C6_ReevaluationIsNoOp ==
    (round = 2 /\ phase \in {"done", "error"}) =>
        (phase = "done" /\ result = first)

\* the second evaluation returned another tree than the first
C6_ReevaluationChangedTree ==
    /\ round = 2 /\ phase = "done"
    /\ doc = first.children
    /\ result # first

\* the resolved names of the MacroCalls in body position below node n, n
\* included: children of a Body and of the code sections of a string body,
\* the string body of a #table left out
RECURSIVE BodyCallNames(_)
BodyCallNames(n) ==
    CASE n.kind = "MacroCall" ->
           {resolve_name(n.name)}
             \cup (IF resolve_name(n.name) = "table" /\ n.body.kind # "Body"
                   THEN {} ELSE BodyCallNames(n.body))
      [] n.kind \in {"Body", "Document"} ->
           UNION {BodyCallNames(n.children[i]) : i \in 1..Len(n.children)}
      [] n.kind = "InterpString" ->
           UNION {BodyCallNames(n.parts[i]) : i \in 1..Len(n.parts)}
      [] n.kind = "CodeSection" ->
           UNION {BodyCallNames(n.body[i]) : i \in 1..Len(n.body)}
      [] OTHER -> {}

\* the resolved names of all MacroCalls below node n, argument values included
RECURSIVE AllCallNames(_)
AllCallNames(n) ==
    CASE n.kind = "MacroCall" ->
           {resolve_name(n.name)}
             \cup AllCallNames(n.body)
             \cup UNION {AllCallNames(n.args[i].value) : i \in 1..Len(n.args)}
      [] n.kind \in {"Body", "Document"} ->
           UNION {AllCallNames(n.children[i]) : i \in 1..Len(n.children)}
      [] n.kind = "InterpString" ->
           UNION {AllCallNames(n.parts[i]) : i \in 1..Len(n.parts)}
      [] n.kind = "CodeSection" ->
           UNION {AllCallNames(n.body[i]) : i \in 1..Len(n.body)}
      [] OTHER -> {}

ExpansionTimeNames == {"comment", "set", "ifeq", "ifne", "ifset", "include"}

DuplicateAt(children, i, j) ==
    /\ i < j
    /\ IsNamedSet(children[i]) /\ IsNamedSet(children[j])
    /\ SetName(children[i]) = SetName(children[j])

\* C8: two top-level #set calls with the same name (env.-prefixed names
\* included) make evaluate fail in pass 1 with EvalError "duplicate
\* definition: X", before any node is expanded.
C8_DuplicateFailsInPassOne ==
    (phase # "start" /\ \E i, j \in 1..Len(doc) : DuplicateAt(doc, i, j)) =>
        /\ phase = "error"
        /\ stack = <<>> /\ result = None
        /\ err.origin = "_collect_definitions"
        /\ \E i, j \in 1..Len(doc) :
              /\ DuplicateAt(doc, i, j)
              /\ err.message = "duplicate definition: " \o SetName(doc[j])

\* two top-level [#set name=env.mode : final] were rejected
C8_EnvDuplicateRejected ==
    /\ phase = "error"
    /\ doc = <<EnvSet, EnvSet>>
    /\ err.message = "duplicate definition: env.mode"
    /\ stack = <<>>

\* C9: a call made outside every user-macro expansion to a macro that a
\* top-level #set of the document defines expands that top-level definition,
\* whether the #set precedes or follows the call.
C9_CallUsesTopLevelDefinition ==
    (/\ Running /\ Top.k = "um"
     /\ Len(call_stack) = 1
     /\ Top.name \in TopLevelSetNames(doc)) =>
        \E i \in 1..Len(doc) :
            /\ IsNamedSet(doc[i])
            /\ SetName(doc[i]) = Top.name
            /\ Top.defn = doc[i]

\* #x between a nested and a top-level #set of x expanded the nested one
C9_NestedDefinitionUsed ==
    /\ Running /\ Top.k = "um" /\ Len(call_stack) = 1
    /\ doc = <<NestedX, UseX, GlobalX>>
    /\ Top.name = "x"
    /\ Top.defn = Set("x", <<>>, <<Text("nested")>>)

\* the definition declares a parameter named env.*
DeclaresEnvParam(defn) ==
    \E i \in 1..Len(defn.args) :
        defn.args[i].name # "name" /\ StartsWith(defn.args[i].name, "env.")

ShadowErrorRaised ==
    /\ phase' = "unwinding"
    /\ StartsWith(err'.message, "cannot shadow environment variable")

\* C10: calling a user macro that declares a parameter named env.* raises
\* EvalError "cannot shadow environment variable" whatever the caller gives:
\* the call raises no other error, and its bindings are never installed.
C10_EnvParameterAlwaysRejected ==
    [][/\ (AtMacro /\ IsUser(name) /\ DeclaresEnvParam(definitions[name]))
            => (phase' = "unwinding" => ShadowErrorRaised)
       /\ (/\ Running /\ Top.k = "um" /\ Top.stage = "resolve"
           /\ Len(Top.resolved) = Len(Top.bindings)
           /\ DeclaresEnvParam(Top.defn))
            => ShadowErrorRaised]_vars

\* [#bad] with bad(env.mode required) failed for the missing argument
C10_MissingArgumentReported ==
    /\ phase = "error"
    /\ doc = <<BadReq, UseBad>>
    /\ err.message = "missing required argument: env.mode"

\* s.split(c): the pieces of s between the occurrences of the one-character
\* string c
Split(s, c) ==
    LET at == {i \in 1..Len(s) : CharAt(s, i) = c} IN
    LET n == Cardinality(at) IN
    LET cut == [k \in 0..(n + 1) |->
                  IF k = 0 THEN 0
                  ELSE IF k = n + 1 THEN Len(s) + 1
                  ELSE CHOOSE i \in at : Cardinality({j \in at : j < i}) = k - 1] IN
    [k \in 1..(n + 1) |-> SubSeq(s, cut[k - 1] + 1, cut[k] - 1)]

\* the cells of one line of text: the piece between two "|" is a cell of one
\* Text, an empty piece an empty cell
LineCells(line) ==
    LET pieces == Split(line, "|") IN
    [j \in 1..Len(pieces) |-> IF pieces[j] = "" THEN <<>> ELSE <<Text(pieces[j])>>]

\* rows after the text s was distributed: the first line continues the
\* current cell and adds its further cells to the current row, every
\* further line is a new row
TextRows(rows, s) ==
    LET lines == Split(s, "\n") IN
    LET head == LineCells(lines[1]) IN
    LET r == Len(rows) IN
    LET c == Len(rows[r]) IN
    SubSeq(rows, 1, r - 1)
      \o << SubSeq(rows[r], 1, c - 1) \o <<rows[r][c] \o head[1]>> \o Tail(head) >>
      \o [i \in 1..(Len(lines) - 1) |-> LineCells(lines[i + 1])]

\* new is old with nodes added at the end of its current cell
GrewCurrentCell(old, new) ==
    LET r == Len(old) IN
    LET c == Len(old[r]) IN
    /\ Len(new) = r /\ Len(new[r]) = c
    /\ \A i \in 1..r : \A j \in 1..Len(old[i]) :
          (i # r \/ j # c) => new[i][j] = old[i][j]
    /\ Len(new[r][c]) >= Len(old[r][c])
    /\ SubSeq(new[r][c], 1, Len(old[r][c])) = old[r][c]

Blank(n) ==
    n.kind = "Text" /\ \A i \in 1..Len(n.value) : CharAt(n.value, i) \in Whitespace

\* the index of the first character of s that is no whitespace
FirstInk(s) ==
    CHOOSE i \in 1..Len(s) :
        /\ CharAt(s, i) \notin Whitespace
        /\ \A j \in 1..(i - 1) : CharAt(s, j) \in Whitespace

LastInk(s) ==
    CHOOSE i \in 1..Len(s) :
        /\ CharAt(s, i) \notin Whitespace
        /\ \A j \in (i + 1)..Len(s) : CharAt(s, j) \in Whitespace

\* the cell without its leading blank Text nodes and without the leading
\* whitespace of the Text that then comes first
LeadingTrimmed(cell) ==
    LET n == Len(cell) IN
    LET i == CHOOSE k \in 1..(n + 1) :
                /\ k = n + 1 \/ ~Blank(cell[k])
                /\ \A j \in 1..(k - 1) : Blank(cell[j]) IN
    IF i = n + 1 THEN <<>>
    ELSE IF cell[i].kind # "Text" THEN SubSeq(cell, i, n)
    ELSE LET v == cell[i].value IN
         <<Text(SubSeq(v, FirstInk(v), Len(v)))>> \o SubSeq(cell, i + 1, n)

TrailingTrimmed(cell) ==
    LET n == Len(cell) IN
    LET i == CHOOSE k \in 0..n :
                /\ k = 0 \/ ~Blank(cell[k])
                /\ \A j \in (k + 1)..n : Blank(cell[j]) IN
    IF i = 0 THEN <<>>
    ELSE IF cell[i].kind # "Text" THEN SubSeq(cell, 1, i)
    ELSE LET v == cell[i].value IN
         SubSeq(cell, 1, i - 1) \o <<Text(SubSeq(v, 1, LastInk(v)))>>

\* the table the distributed rows stand for: every cell trimmed, the rows
\* without content dropped, the first row of th cells, the others of td
TableOf(rows, bracketed) ==
    LET trimmed == [i \in 1..Len(rows) |->
                      [j \in 1..Len(rows[i]) |->
                          TrailingTrimmed(LeadingTrimmed(rows[i][j]))]] IN
    LET kept == SelectSeq(trimmed, LAMBDA r : \E j \in 1..Len(r) : r[j] # <<>>) IN
    MacroCall("table", <<>>,
        Body([i \in 1..Len(kept) |->
                MacroCall("tr", <<>>,
                    Body([j \in 1..Len(kept[i]) |->
                            MacroCall(IF i = 1 THEN "th" ELSE "td", <<>>,
                                      Body(kept[i][j]), TRUE)]),
                    TRUE)]),
        bracketed)

\* a Body with a literal Text child that holds a "|"
HasPipeText(body) ==
    /\ body.kind = "Body"
    /\ \E i \in 1..Len(body.children) :
          /\ body.children[i].kind = "Text"
          /\ \E k \in 1..Len(body.children[i].value) :
                CharAt(body.children[i].value, k) = "|"

\* C11: a #table whose Body has a literal Text child holding "|" becomes one
\* synthesized table: its Text children are split at newline (new row) and
\* "|" (new cell), every other child is expanded and added to the current
\* cell, every cell is trimmed of leading and trailing whitespace, the rows
\* whose cells are all empty are dropped, the first surviving row is a tr of
\* th cells and every later row a tr of td cells.  A #table without such a
\* child is passed through unsplit.
C11_PipeTableSynthesized ==
    [][/\ (AtMacro /\ name = "table") =>
            IF HasPipeText(child.body)
            THEN /\ Len(stack') = Len(stack) + 1
                 /\ stack'[Len(stack')].k = "rows"
                 /\ stack'[Len(stack')].todo = child.body.children
                 /\ stack'[Len(stack')].rows = << << <<>> >> >>
            ELSE \A i \in 1..Len(stack') : stack'[i].k # "rows"
       /\ \A i \in 1..Len(stack) :
            (stack[i].k = "rows" /\ Len(stack') >= i /\ phase' = "expand") =>
               /\ stack'[i].k = "rows"
               /\ IF i = Len(stack) /\ stack[i].todo # <<>>
                     /\ Head(stack[i].todo).kind = "Text"
                  THEN stack'[i].rows = TextRows(stack[i].rows, Head(stack[i].todo).value)
                  ELSE GrewCurrentCell(stack[i].rows, stack'[i].rows)
       /\ (Running /\ Top.k = "rows" /\ Top.todo = <<>>) =>
            stack' = Returned(<<TableOf(Top.rows, Top.bracketed)>>)]_vars

\* the pipe table with a blank line, a line of empty cells and two macros in
\* its last cell was returned as a header row and one data row
C11_MacroCellsKept ==
    /\ phase = "done" /\ round = 1
    /\ doc = <<BarDef, PipeMacroTable>>
    /\ result = Document(<<
          MacroCall("table", <<>>,
              Body(<<MacroCall("tr", <<>>,
                        Body(<<MacroCall("th", <<>>, Body(<<Text("Col")>>), TRUE),
                               MacroCall("th", <<>>, Body(<<Text("Val")>>), TRUE)>>),
                        TRUE),
                     MacroCall("tr", <<>>,
                        Body(<<MacroCall("td", <<>>, Body(<<Text("Bold")>>), TRUE),
                               MacroCall("td", <<>>,
                                   Body(<<MacroCall("**", <<>>,
                                              InterpString(<<Text("Yes")>>), TRUE),
                                          Text("a|b")>>),
                                   TRUE)>>),
                        TRUE)>>),
              TRUE)>>)

\* C18: when a user-macro expansion ends, by its return or by an exception
\* (missing argument, depth limit, env-shadow attempt, an error raised in its
\* body), ctx.definitions is exactly the map it was at the entry of that
\* expansion.
C18_DefinitionsAsAtEntry ==
    [][/\ UserMacroReturns => definitions' = Top.defs_entry
       /\ (phase = "unwinding" /\ Top.k = "um") => definitions' = Top.defs_entry
       /\ (AtMacro /\ (IsUser(name) \/ IsDot(name)) /\ phase' = "unwinding")
            => definitions' = definitions]_vars

\* [#bad] with bad(y=why, env.mode=dflt) raised the shadow error after y was
\* installed: the evaluation ended with y still defined
C18_BindingLeftInstalled ==
    /\ phase = "error"
    /\ doc = <<BadDflt, UseBad>>
    /\ StartsWith(err.message, "cannot shadow environment variable")
    /\ DOMAIN definitions = {"bad", "y"}

\* C19: a #set below the top level of the root document (in a conditional's
\* body, a builtin's body, an included file or a user-macro body) whose name
\* is already in definitions raises EvalError "duplicate definition" and
\* replaces nothing; one whose name is new records its definition and
\* produces no output.
C19_NestedDuplicateRejected ==
    [][(AtMacro /\ name = "set" /\ Len(stack) > 1 /\ _get_arg(child, "name") # None) =>
          LET def_name == _resolve_value(_get_arg(child, "name"), definitions, env) IN
          IF def_name \in DOMAIN definitions
          THEN /\ phase' = "unwinding"
               /\ StartsWith(err'.message, "duplicate definition")
               /\ definitions' = definitions
          ELSE /\ definitions' = Put(definitions, def_name, child)
               /\ stack' = Yielded(<<>>)
               /\ phase' = phase]_vars

\* the #set of x inside a conditional replaced the top-level definition of x
C19_NestedSetReplaced ==
    /\ phase = "done" /\ round = 1
    /\ doc = <<GlobalX, NestedX, UseX>>
    /\ definitions["x"] = Set("x", <<>>, <<Text("nested")>>)

\* the path the #include node n names
IncludedPath(n) ==
    ResolvePath(source_dir, _resolve_value(_get_arg(n, "file"), definitions, env))

\* C20: include cycles are detected before the depth cap triggers: whatever
\* the length of the cycle, an #include that raises "include depth limit
\* exceeded" never names a path that is on the include stack (such an
\* #include raises "circular include").
C20_DepthLimitNeverOnCycle ==
    [][(/\ AtMacro /\ name = "include" /\ _get_arg(child, "file") # None
        /\ phase' = "unwinding"
        /\ StartsWith(err'.message, "include depth limit"))
          => IncludedPath(child) \notin Range(include_stack)]_vars

\* c15.pdoc, the sixteenth path of the stack, included the root document and
\* the depth error is in flight
C20_CycleClosedAtSixteen ==
    /\ phase = "unwinding"
    /\ err = IncludeDepthError
    /\ Len(include_stack) = max_include_depth
    /\ include_stack[Len(include_stack)] = ResolvePath(source_dir, ChainFile("c", CycleLen))
    /\ Top.todo # <<>>
    /\ IncludedPath(Head(Top.todo)) = include_stack[1]

\* the context a new EvalContext holds for the caller's env map e
FreshContext(e) ==
    /\ definitions = EmptyDict
    /\ env = e
    /\ include_stack = <<ResolvePath(source_dir, RootFile)>>
    /\ call_stack = <<>>
    /\ stack = <<>>

RECURSIVE RawText(_)
RawText(tokens) ==
    IF tokens = <<>> THEN <<>>
    ELSE (IF Head(tokens).type = "EOF" THEN <<>> ELSE Head(tokens).raw)
           \o RawText(Tail(tokens))

\* C12: when tokenize succeeds, the raw text of its non-EOF tokens, in order,
\* is the source, character for character.
C12_RawTextIsSource ==
    lexed.status = "returned" => RawText(lexer.tokens) = source

\* "\[#a "x"]" was tokenized: a string with a code section that holds a
\* nested string
C12_CodeSectionTokenized ==
    /\ lexed.status = "returned"
    /\ source = <<"\"", "\\", "[", "#", "a", " ", "\"", "x", "\"", "]", "\"">>
    /\ [i \in 1..Len(lexer.tokens) |-> lexer.tokens[i].type]
         = <<"STRING_START", "CODE_OPEN", "HASH", "IDENTIFIER", "WS", "STRING_START",
             "STRING_TEXT", "STRING_END", "CODE_CLOSE", "STRING_END", "EOF">>

\* C13: in a token stream tokenize returned, the start offsets never
\* decrease, every span lies in the source (0 <= start <= end <= len), and
\* there is exactly one EOF token, the last one.
C13_OffsetsOrderedOneEof ==
    lexed.status = "returned" =>
        LET t == lexer.tokens IN
        /\ \A i \in 1..(Len(t) - 1) : t[i].start <= t[i + 1].start
        /\ \A i \in 1..Len(t) :
              0 <= t[i].start /\ t[i].start <= t[i].end /\ t[i].end <= Len(source)
        /\ Len(t) >= 1
        /\ \A i \in 1..Len(t) : t[i].type = "EOF" <=> i = Len(t)

\* the empty string "" was tokenized: both its tokens start at the first
\* quote and end after the second
C13_EmptyStringTokenized ==
    /\ lexed.status = "returned"
    /\ source = <<"\"", "\"", "a">>
    /\ lexer.tokens =
         <<Token("STRING_START", <<"\"">>, <<"\"">>, 0, 2),
           Token("STRING_END", <<"\"">>, <<"\"">>, 0, 2),
           Token("IDENTIFIER", <<"a">>, <<"a">>, 2, 3),
           Token("EOF", <<>>, <<>>, 3, 3)>>

\* C14: every iteration of the main loop of tokenize consumes at least one
\* character or raises LexError, so tokenize ends for every source.
C14_IterationConsumesOrRaises ==
    [][iterations' = iterations + 1 =>
          lexer'.pos > lexer.pos \/ lexed'.status = "raised"]_vars

\* a carriage return that no line feed follows: the loop has run
\* MaxIterations times and is where it began
C14_StuckOnCarriageReturn ==
    /\ source = <<"\r">>
    /\ iterations = MaxIterations
    /\ lexed.status = "running"
    /\ lexer.pos = 0
    /\ lexer.tokens = <<>>

\* C16: a NUL character anywhere in the source makes tokenize raise
\* LexError, in prose, in code mode, in an interpreted string and in a raw
\* string: tokenize returns for no source that holds a NUL.
C16_NulNeverTokenized ==
    lexed.status = "returned" => \A i \in 1..Len(source) : source[i] # NUL

\* a NUL inside an interpreted string became part of a STRING_TEXT token
C16_NulInStringText ==
    /\ lexed.status = "returned"
    /\ source = <<"\"", "a", NUL, "\"">>
    /\ lexer.tokens[2] = Token("STRING_TEXT", <<"a", NUL>>, <<"a", NUL>>, 1, 3)

\* C15: parse ends on every token stream of a successful tokenize: every
\* iteration of the loop of Parser.parse and of the loop of _parse_paragraph
\* consumes at least one token or raises ParseError, also when prose holds
\* a string with a code section that holds a nested string.
C15_ParseIterationConsumesOrRaises ==
    [][parser.status \in {"document", "paragraph"} /\ iterations' = iterations + 1 =>
          parser'.pos > parser.pos \/ parser'.status = "raised"]_vars

\* prose that is a string with a code section with a nested string: the
\* loop of _parse_paragraph has run MaxIterations times and stands at the
\* CODE_CLOSE token, which _parse_inline_content leaves where it is
C15_StuckAtCodeClose ==
    /\ source = <<"\"", "\\", "[", "\"", "a", "\"", "]", "\"">>
    /\ lexed.status = "returned"
    /\ parser.status = "paragraph"
    /\ iterations = MaxIterations
    /\ PeekToken(lexer.tokens, Nav(parser), 0).type = "CODE_CLOSE"
    /\ ParagraphIteration(lexer.tokens, Nav(parser), parser.paragraph).ps = Nav(parser)

\* the types of a token stream
Types(tokens) == [i \in 1..Len(tokens) |-> tokens[i].type]

\* the tokens a step of the lexer emitted
Emitted == {lexer'.tokens[i] : i \in (Len(lexer.tokens) + 1)..Len(lexer'.tokens)}

\* an iteration of the loop of tokenize that raised nothing
Lexed == iterations' = iterations + 1 /\ lexed.status = "running" /\ lexed'.status = "running"

\* C26: in code mode the bracket depth starts at 1 on \[, each [ adds one
\* and each ] takes one; CODE_CLOSE is emitted exactly when a ] brings the
\* depth to 0, every other ] is RBRACKET, and the lexer then resumes the
\* interpreted string that opened the code section.  Brackets of a string
\* nested in the code section and escaped brackets leave the depth alone.
C26_CodeDepthCountsBrackets ==
    [][Lexed =>
         LET ch == _peek(source, lexer, 0)
             depth == lexer.bracket_depth IN
         /\ \A t \in Emitted :
               /\ t.type = "CODE_OPEN" =>
                     /\ lexer.state = "INTERP_STRING"
                     /\ lexer'.state = "CODE_MODE" /\ lexer'.bracket_depth = 1
               /\ t.type = "CODE_CLOSE" =>
                     lexer.state = "CODE_MODE" /\ ch = "]" /\ depth = 1
         /\ lexer.state = "CODE_MODE" /\ ch = "[" =>
               /\ Types(lexer'.tokens) = Append(Types(lexer.tokens), "LBRACKET")
               /\ lexer'.state = "CODE_MODE" /\ lexer'.bracket_depth = depth + 1
         /\ lexer.state = "CODE_MODE" /\ ch = "]" /\ depth > 1 =>
               /\ Types(lexer'.tokens) = Append(Types(lexer.tokens), "RBRACKET")
               /\ lexer'.state = "CODE_MODE" /\ lexer'.bracket_depth = depth - 1
         /\ lexer.state = "CODE_MODE" /\ ch = "]" /\ depth = 1 =>
               /\ Types(lexer'.tokens) = Append(Types(lexer.tokens), "CODE_CLOSE")
               /\ lexer'.state = "INTERP_STRING"
               /\ lexer.state_stack =
                     Append(lexer'.state_stack, <<"INTERP_STRING", lexer'.bracket_depth>>)
         /\ lexer.state = "CODE_MODE" /\ ch \notin {"[", "]"} =>
               \/ lexer'.state = "CODE_MODE" /\ lexer'.bracket_depth = depth
                     /\ lexer'.state_stack = lexer.state_stack
               \/ lexer'.state = "INTERP_STRING"
                     /\ lexer'.state_stack =
                           Append(lexer.state_stack, <<"CODE_MODE", depth>>)
         /\ lexer.state = "INTERP_STRING" =>
               \/ lexer'.state_stack = lexer.state_stack
               \/ lexer'.state_stack =
                     Append(lexer.state_stack, <<"INTERP_STRING", depth>>)
               \/ lexer.state_stack =
                     Append(lexer'.state_stack, <<lexer'.state, lexer'.bracket_depth>>)]_vars

\* "\[[#a]]" was tokenized: the inner brackets are LBRACKET and RBRACKET,
\* the last ] closes the code section
C26_NestedBracketsTokenized ==
    /\ lexed.status = "returned"
    /\ source = <<"\"", "\\", "[", "[", "#", "a", "]", "]", "\"">>
    /\ Types(lexer.tokens) =
          <<"STRING_START", "CODE_OPEN", "LBRACKET", "HASH", "IDENTIFIER",
            "RBRACKET", "CODE_CLOSE", "STRING_END", "EOF">>

\* the modes in force, outermost first: the saved ones, then the current one
Modes(lx) ==
    [i \in 1..(Len(lx.state_stack) + 1) |->
        IF i <= Len(lx.state_stack)
        THEN [state |-> lx.state_stack[i][1], bracket_depth |-> lx.state_stack[i][2]]
        ELSE [state |-> lx.state, bracket_depth |-> lx.bracket_depth]]

\* STRING_START/STRING_END and CODE_OPEN/CODE_CLOSE of tokens[i..] close
\* what is open, innermost first, and open code sections inside strings only
RECURSIVE Nested(_, _, _)
Nested(tokens, i, open) ==
    IF i > Len(tokens) THEN open = <<>>
    ELSE LET tt == tokens[i].type
             top == IF open = <<>> THEN "" ELSE open[Len(open)] IN
         IF tt = "STRING_START" THEN Nested(tokens, i + 1, Append(open, "STRING"))
         ELSE IF tt = "CODE_OPEN"
         THEN top = "STRING" /\ Nested(tokens, i + 1, Append(open, "CODE"))
         ELSE IF tt = "STRING_END"
         THEN top = "STRING" /\ Nested(tokens, i + 1, SubSeq(open, 1, Len(open) - 1))
         ELSE IF tt = "CODE_CLOSE"
         THEN top = "CODE" /\ Nested(tokens, i + 1, SubSeq(open, 1, Len(open) - 1))
         ELSE Nested(tokens, i + 1, open)

\* the mode stack of a lexer is well formed
WellFormed(lx) ==
    LET m == Modes(lx) IN
    /\ lx.state = "NORMAL" <=> lx.state_stack = <<>>
    /\ m[1].state = "NORMAL"
    /\ \A i \in 2..Len(m) :
          /\ m[i].state \in {"INTERP_STRING", "CODE_MODE"}
          /\ m[i].state = "CODE_MODE" =>
                m[i - 1].state = "INTERP_STRING" /\ m[i].bracket_depth >= 1

RECURSIVE ProseOfStrings(_, _, _)
ProseOfStrings(tokens, i, open) ==
    IF i > Len(tokens) THEN TRUE
    ELSE LET tt == tokens[i].type IN
         IF tt \in {"STRING_START", "CODE_OPEN"} THEN ProseOfStrings(tokens, i + 1, open + 1)
         ELSE IF tt \in {"STRING_END", "CODE_CLOSE"}
         THEN ProseOfStrings(tokens, i + 1, open - 1)
         ELSE /\ open = 0 => tt \in _TEXT_TOKENS \cup {"RAW_STRING", "EOF"}
              /\ ProseOfStrings(tokens, i + 1, open)

\* C27: a string literal met in text position is reconstructed verbatim,
\* quotes included: a paragraph of words and string literals (interpreted,
\* with escapes or code sections, or raw) parses to one Text that is the
\* source, character for character.
C27_StringInTextVerbatim ==
    (/\ parser.status = "returned"
     /\ ProseOfStrings(lexer.tokens, 1, 0)
     /\ (\E i \in 1..Len(lexer.tokens) :
            lexer.tokens[i].type \in {"STRING_START", "RAW_STRING"}))
    => parser.document = Document(<<Paragraph(<<Text(source)>>)>>)

\* the paragraph "\\" (a string of one escaped backslash) was parsed: its
\* Text holds the value of the escape, one backslash, between the quotes
C27_EscapeValueInText ==
    /\ parser.status = "returned"
    /\ source = <<"\"", "\\", "\\", "\"">>
    /\ parser.document = Document(<<Paragraph(<<Text(<<"\"", "\\", "\"">>)>>)>>)

\* the inline content of a block: the body of a paragraph, the children of
\* the colon body of a macro block
InlineOf(block) ==
    IF block.kind = "Paragraph" THEN block.body
    ELSE IF block.kind = "MacroCall" /\ block.body.kind = "Body" THEN block.body.children
    ELSE <<>>

\* the block is prose that ends in an unbracketed call without a body and
\* the text after it
EndsInCallAndText(block) ==
    LET sib == InlineOf(block)
        n == Len(sib) IN
    /\ n >= 2
    /\ sib[n].kind = "Text"
    /\ sib[n - 1].kind = "MacroCall"
    /\ ~sib[n - 1].bracketed
    /\ sib[n - 1].body = None

\* the text that follows the last inline call of the block
FollowingText(block) == InlineOf(block)[Len(InlineOf(block))].value

\* C28: an inline unbracketed call in prose, with or without named
\* arguments, does not consume the text after it: the following Text starts
\* right after the last character of the call, so the whitespace between the
\* call and the next word is part of it.
C28_InlineCallLeavesFollowingText ==
    (/\ parser.status = "returned"
     /\ Len(parser.document.children) = 1
     /\ EndsInCallAndText(parser.document.children[1]))
    => LET b == FollowingText(parser.document.children[1])
           k == Len(source) - Len(b) IN
       (k >= 1 /\ SubSeq(source, k + 1, Len(source)) = b) => source[k] \notin {" ", "\t"}

\* the paragraph "The #v x=1 is." was parsed: the text after the call with a
\* named argument is "is.", without the space that precedes it in the source
C28_SpaceAfterArgumentLost ==
    /\ parser.status = "returned"
    /\ source = <<"T", "h", "e", " ", "#", "v", " ", "x", "=", "1", " ", "i", "s", ".">>
    /\ parser.document = Document(<<Paragraph(
          <<Text(<<"T", "h", "e", " ">>),
            MacroCall(<<"v">>, <<NamedArg(<<"x">>, Text(<<"1">>))>>, None, FALSE),
            Text(<<"i", "s", ".">>)>>)>>)

\* Path(path).parent of an absolute path
RECURSIVE Parent(_)
Parent(path) ==
    IF path = "" \/ CharAt(path, Len(path)) = "/" THEN DropLast(path)
    ELSE Parent(DropLast(path))

\* C21: #include file=F resolves F relative to the directory of the document
\* that holds the directive: the path an #include pushes on the include
\* stack is F under the directory of the file being expanded (the top of the
\* include stack), for the root document and for an included file in
\* another directory alike.
C21_IncludeRelativeToContainingFile ==
    [][Len(include_stack') > Len(include_stack) =>
          include_stack'[Len(include_stack')] =
              ResolvePath(Parent(include_stack[Len(include_stack)]),
                          _resolve_value(_get_arg(child, "file"), definitions, env))]_vars

\* sub/a.pdoc, included by the root document, includes n.pdoc: the file
\* opened is n.pdoc of the root's directory, not of sub
C21_NestedIncludeFromRootDirectory ==
    include_stack = <<ResolvePath(source_dir, RootFile),
                      ResolvePath(source_dir, "sub/a.pdoc"),
                      ResolvePath(source_dir, "n.pdoc")>>

\* the activations of _expand_include among the frames stk
IncludeFrames(stk) == {i \in 1..Len(stk) : stk[i].k = "top" /\ stk[i].include}

\* C25: after an #include finishes, by return or by exception, the include
\* stack is what it was before it: a path is pushed only for a file that was
\* read and parsed, together with the activation that expands it, and the
\* activation's exit, either way, pops that path; so the stack always holds
\* the root and one path for each #include in progress.
C25_IncludeStackRestored ==
    [][/\ Len(include_stack') = 1 + Cardinality(IncludeFrames(stack'))
       /\ Len(include_stack') > Len(include_stack) =>
             /\ DropLast(include_stack') = include_stack
             /\ ReadFile(include_stack'[Len(include_stack')]).found
             /\ IncludeFrames(stack') = IncludeFrames(stack) \cup {Len(stack')}
       /\ Len(include_stack') < Len(include_stack) =>
             /\ include_stack' = DropLast(include_stack)
             /\ Top.k = "top" /\ Top.include
             /\ Len(stack') = Len(stack) - 1]_vars

\* one #include returned and the next one raised inside the file it was
\* expanding: the exception has left evaluate() and the include stack holds
\* the root alone
C25_RestoredAfterReturnAndRaise ==
    /\ phase = "error"
    /\ doc = <<Include("part.pdoc"), Include("b.pdoc")>>
    /\ err = CircularIncludeError(RootFile)
    /\ include_stack = <<ResolvePath(source_dir, RootFile)>>

\* the activations of _expand_user_macro that are expanding their body
InBody(stk) == {i \in 1..Len(stk) : stk[i].k = "um" /\ stk[i].stage = "body"}

\* the innermost of them
Innermost(stk) == CHOOSE i \in InBody(stk) : \A j \in InBody(stk) : j <= i

\* C22: parameters are lexically scoped: when a reference is expanded in the
\* body of a macro B that the document defines, and B has no parameter of
\* that name, it does not resolve to the binding that a macro A, whose body
\* called B, installed for its own parameter of that name.
C22_ParameterVisibleOnlyInOwnBody ==
    (/\ AtMacro /\ IsUser(name)
     /\ InBody(stack) # {}
     /\ stack[Innermost(stack)].defn \in Range(doc)
     /\ name \notin Range(stack[Innermost(stack)].shadowed))
    => \A j \in InBody(stack) \ {Innermost(stack)} :
          \A i \in 1..Len(stack[j].resolved) :
             stack[j].resolved[i].name = name =>
                definitions[name] # Synthetic(name, stack[j].resolved[i].value)

\* [#outer x=local] with outer : #inner and inner : #x was evaluated: the
\* paragraph holds "local", the binding of outer's parameter, read by inner
C22_CalleeReadCallersParameter ==
    /\ phase = "done" /\ round = 1
    /\ doc = <<InnerDef, OuterDef, UseOuter>>
    /\ result = Document(<<P(<<Text("local")>>)>>)

\* frame i expands the value that the call of frame j bound to one of its
\* parameters
BoundValueOf(stk, i, j) ==
    /\ stk[j].k = "um" /\ stk[j].stage = "body"
    /\ stk[i].k = "um"
    /\ \E b \in 1..Len(stk[j].resolved) :
          /\ stk[j].resolved[b].name = stk[i].name
          /\ stk[i].defn = Synthetic(stk[i].name, stk[j].resolved[b].value)

\* C23: the values bound to the parameters of a call are resolved in the
\* caller's scope before any parameter is installed: while a bound value is
\* being resolved a reference to a name the call shadows finds the caller's
\* definition of it, and a reference inside a bound value never resolves to
\* the binding of a sibling parameter of the same call.
C23_BoundValuesInCallersScope ==
    /\ (/\ AtMacro /\ IsUser(name)
        /\ Top.k = "body" /\ Top.ret.r = "binding"
        /\ name \in Names(Below.bindings))
       => definitions[name] = Below.defs_entry[name]
    /\ (AtMacro /\ IsUser(name) /\ InBody(stack) # {})
       => \A j \in InBody(stack) \ {Innermost(stack)} :
             BoundValueOf(stack, Innermost(stack), j) =>
                \A b \in 1..Len(stack[j].resolved) :
                   (/\ stack[j].resolved[b].name = name
                    /\ name # stack[Innermost(stack)].name)
                   => definitions[name] # Synthetic(name, stack[j].resolved[b].value)

\* [#pair u=1] with pair u=? v=#u : #v was evaluated: the paragraph holds
\* "1", the sibling parameter u read through the default of v
C23_DefaultReadSiblingParameter ==
    /\ phase = "done" /\ round = 1
    /\ doc = <<PairDef, UsePair>>
    /\ result = Document(<<P(<<Text("1")>>)>>)

IsUm(f) == f.k = "um"

\* the names of the user macros whose expansion is in progress, outermost
\* first
InProgress(stk) ==
    [i \in 1..Len(SelectSeq(stk, IsUm)) |-> SelectSeq(stk, IsUm)[i].name]

\* a call of a user macro, plain or with the trailing dot, that binds every
\* required parameter: the depth check is reached
CallReachesDepthCheck ==
    /\ AtMacro /\ (IsUser(name) \/ IsDot(name))
    /\ Bind(child, definitions[IF IsUser(name) THEN name ELSE DropLast(name)]).missing = <<>>

C29_BuiltinNeverUserExpanded ==
    [][/\ (AtMacro /\ name \in BUILTINS) =>
             /\ call_stack' = call_stack
             /\ InProgress(stack') = InProgress(stack)
             /\ name \notin {"set", "include"} => definitions' = definitions
       /\ Len(call_stack') > Len(call_stack) =>
             LET pushed == call_stack'[Len(call_stack')] IN
             /\ name \in {pushed, pushed \o "."}
             /\ pushed \in DOMAIN definitions
             /\ pushed \notin BUILTINS]_vars

\* with #set name=b and an installed parameter i: [#style i=it] and [#** : t]
\* were evaluated and the paragraph holds the calls of i and ** unexpanded
C29_BuiltinNamesKept ==
    /\ phase = "done" /\ round = 1
    /\ doc = <<BoldDef, StyleDef, UseStyle>>
    /\ result = Document(<<P(<<Ref("i"), Block("**", <<>>, <<Text("t")>>)>>)>>)

====
